---- MODULE Spec2Model ----
(***************************************************************************)
(* Model of the trial-balance (balancete) parsing core of af-relatorio:    *)
(*   backend/parsers/value_converter.py   parse_brazilian_value, apply_sign*)
(*   backend/parsers/header_extractor.py  extract_header                   *)
(*   backend/parsers/balancete_parser.py  parse_balancete                  *)
(*                                                                         *)
(* Python strings are sequences of one-character strings, so that strip,   *)
(* upper, endswith, replace, re.sub, split and float() are computed the    *)
(* way the code computes them.  Numbers are exact decimals <<n, k>>        *)
(* standing for n / 10^k, normalised (k = 0 or n not a multiple of 10).    *)
(***************************************************************************)
EXTENDS Integers, Sequences, FiniteSets, TLC

VARIABLES
    as_value, as_indicator, as_group, as_result,   \* one call of apply_sign
    pv_input, pv_src, pv_result,                   \* one call of parse_brazilian_value
    file, pc, header, raw_rows, records, result,   \* one call of parse_balancete
    vh_df, vh_result,                              \* one call of validate_hierarchy
    bs_df, bs_result,                              \* one call of validate_balance_sheet
    lc_df, lc_result,                              \* one call of validate_level_classification
    rt_script, rt_attempt, rt_backoff, rt_calls, rt_sleeps, rt_now, rt_timestamps, rt_result,\* one call of _call_with_retry
    bw_store, bw_written, bw_calls, bw_result,     \* the Base Balancete sheet under write_month
    cl_df, cl_sheet, cl_result,                    \* one call of classify_accounts
    up_df, up_response                             \* one upload: the parsed ledger and the response

sign_vars  == <<as_value, as_indicator, as_group, as_result>>
value_vars == <<pv_input, pv_src, pv_result>>
parse_vars == <<file, pc, header, raw_rows, records, result>>
hier_vars  == <<vh_df, vh_result>>
sheet_vars == <<bs_df, bs_result>>
level_vars == <<lc_df, lc_result>>
retry_vars == <<rt_script, rt_attempt, rt_backoff, rt_calls, rt_sleeps, rt_now, rt_timestamps, rt_result>>
writer_vars == <<bw_store, bw_written, bw_calls, bw_result>>
depara_vars == <<cl_df, cl_sheet, cl_result>>
upload_vars == <<up_df, up_response>>
vars == <<sign_vars, value_vars, parse_vars, hier_vars, sheet_vars, level_vars, retry_vars, writer_vars, depara_vars, upload_vars>>

(***************************************************************************)
(* Bounds of the explored inputs.                                          *)
(***************************************************************************)
\* longest arbitrary string handed to parse_brazilian_value
MaxLen == 3
\* whole magnitudes 0..MaxMag handed to apply_sign
MaxMag == 3
\* amounts of 0..MaxCents cents formatted and parsed back
MaxCents == 120
\* most data rows (row index 3 onward) of an explored file
MaxRows == 3
\* the cents tried on each side of a balance near the tolerance
MaxGap == 3
\* the longest ledger of structure rows given to validate_hierarchy
MaxLedger == 3
\* most rows of a DataFrame handed to write_month
MaxFrame == 2
\* most calls of write_month in a run
MaxWrites == 3

(***************************************************************************)
(* Python str primitives.                                                  *)
(***************************************************************************)
Digits == <<"0", "1", "2", "3", "4", "5", "6", "7", "8", "9">>
Uppers == <<"A", "B", "C", "D", "E", "F", "G", "H", "I", "J", "K", "L", "M",
            "N", "O", "P", "Q", "R", "S", "T", "U", "V", "W", "X", "Y", "Z">>
Lowers == <<"a", "b", "c", "d", "e", "f", "g", "h", "i", "j", "k", "l", "m",
            "n", "o", "p", "q", "r", "s", "t", "u", "v", "w", "x", "y", "z">>
Whitespace == {" "}

IndexOf(c, alphabet) ==
    IF \E i \in 1..Len(alphabet) : alphabet[i] = c
    THEN CHOOSE i \in 1..Len(alphabet) : alphabet[i] = c
    ELSE 0

IsDigit(c) == IndexOf(c, Digits) > 0
DigitVal(c) == IndexOf(c, Digits) - 1

UpperChar(c) == IF IndexOf(c, Lowers) > 0 THEN Uppers[IndexOf(c, Lowers)] ELSE c
LowerChar(c) == IF IndexOf(c, Uppers) > 0 THEN Lowers[IndexOf(c, Uppers)] ELSE c

\* str.upper(), str.lower()
Upper(s) == [i \in 1..Len(s) |-> UpperChar(s[i])]
Lower(s) == [i \in 1..Len(s) |-> LowerChar(s[i])]

\* str.strip(): whitespace removed from both ends
RECURSIVE LStrip(_)
LStrip(s) == IF s /= <<>> /\ Head(s) \in Whitespace THEN LStrip(Tail(s)) ELSE s
RECURSIVE RStrip(_)
RStrip(s) ==
    IF s /= <<>> /\ s[Len(s)] \in Whitespace
    THEN RStrip(SubSeq(s, 1, Len(s) - 1))
    ELSE s
Strip(s) == RStrip(LStrip(s))

\* s.endswith(c) for a one-character c
EndsWith(s, c) == s /= <<>> /\ s[Len(s)] = c

\* s[:-1]
DropLast(s) == IF s = <<>> THEN <<>> ELSE SubSeq(s, 1, Len(s) - 1)

\* characters of s that satisfy keep, in order (str.replace(c, ""), re.sub(.., ""))
RECURSIVE Filter(_, _)
Filter(s, keep) ==
    IF s = <<>> THEN <<>>
    ELSE IF Head(s) \in keep THEN <<Head(s)>> \o Filter(Tail(s), keep)
    ELSE Filter(Tail(s), keep)

\* s.replace(a, b) for one-character a and b
Replace(s, a, b) == [i \in 1..Len(s) |-> IF s[i] = a THEN b ELSE s[i]]

\* sub in s
Contains(s, sub) ==
    \E i \in 1..(Len(s) - Len(sub) + 1) : SubSeq(s, i, i + Len(sub) - 1) = sub

\* number of occurrences of character c in s
Count(s, c) == Cardinality({i \in 1..Len(s) : s[i] = c})

(***************************************************************************)
(* Exact decimals: <<n, k>> is n / 10^k.                                   *)
(***************************************************************************)
RECURSIVE Norm(_, _)
Norm(n, k) == IF k > 0 /\ n % 10 = 0 THEN Norm(n \div 10, k - 1) ELSE <<n, k>>

Zero == <<0, 0>>
Abs(d) == IF d[1] < 0 THEN <<-d[1], d[2]>> ELSE d
Neg(d) == <<-d[1], d[2]>>

\* the digits of s read as a natural number ("" reads as 0)
RECURSIVE DigitsVal(_)
DigitsVal(s) ==
    IF s = <<>> THEN 0 ELSE 10 * DigitsVal(DropLast(s)) + DigitVal(s[Len(s)])

AllDigits(s) == \A i \in 1..Len(s) : IsDigit(s[i])

\* float(s) for a string of digits, '.' and '-' only: an optional leading
\* minus, then digits with at most one point and at least one digit.
\* exc is the exception float() raises ("" when it returns val).
FloatValue(val) == [exc |-> "", val |-> val]
FloatError == [exc |-> "ValueError", val |-> Zero]

\* integer digits ip and fraction digits fp
DecimalOf(ip, fp) ==
    IF AllDigits(ip) /\ AllDigits(fp) /\ Len(ip) + Len(fp) > 0
    THEN FloatValue(Norm(DigitsVal(ip \o fp), Len(fp)))
    ELSE FloatError

\* the unsigned text split at its first point (dot = 0: no point)
SplitAtPoint(body, dot) ==
    IF dot = 0 THEN DecimalOf(body, <<>>)
    ELSE DecimalOf(SubSeq(body, 1, dot - 1), SubSeq(body, dot + 1, Len(body)))

Negated(f) == [exc |-> f.exc, val |-> Neg(f.val)]

PyFloat(s) ==
    IF s /= <<>> /\ Head(s) = "-"
    THEN Negated(SplitAtPoint(Tail(s), IndexOf(".", Tail(s))))
    ELSE SplitAtPoint(s, IndexOf(".", s))

(***************************************************************************)
(* Python values handed to the parsers: None, a float (NaN apart), a str.  *)
(***************************************************************************)
None     == [t |-> "none",  s |-> <<>>, v |-> Zero]
NaN      == [t |-> "nan",   s |-> <<>>, v |-> Zero]
Str(s)   == [t |-> "str",   s |-> s,    v |-> Zero]
Float(d) == [t |-> "float", s |-> <<>>, v |-> d]

(***************************************************************************)
(* value_converter.py                                                      *)
(***************************************************************************)
\* a call's outcome: it returns the tuple (val, ind), or raises exc
Returned(val, ind) == [st |-> "returned", exc |-> "", val |-> val, ind |-> ind]
Raised(exc) == [st |-> "raised", exc |-> exc, val |-> Zero, ind |-> <<>>]
Pending == [st |-> "pending", exc |-> "", val |-> Zero, ind |-> <<>>]

\* lines 56-63: the trailing D/C, case-insensitive
Indicator(cleaned) ==
    IF EndsWith(Upper(cleaned), "D") THEN <<"D">>
    ELSE IF EndsWith(Upper(cleaned), "C") THEN <<"C">>
    ELSE <<>>

\* lines 65-72: thousands points out, decimal comma to point, the rest deleted
Cleaned_keep_points(s) ==
    Filter(Replace(s, ",", "."), {Digits[i] : i \in 1..10} \cup {".", "-"})
Cleaned(s) ==
    Filter(Replace(Filter(s, {s[i] : i \in 1..Len(s)} \ {"."}), ",", "."),
           {Digits[i] : i \in 1..10} \cup {".", "-"})

\* lines 77-82: try: float(cleaned) except ValueError: return (0.0, "")
CatchValueError_keep_indicator(f, indicator) ==
    IF f.exc = "" THEN Returned(f.val, indicator) ELSE Returned(Zero, indicator)
CatchValueError(f, indicator) ==
    IF f.exc = "" THEN Returned(f.val, indicator)
    ELSE IF f.exc \in {"ValueError"} THEN Returned(Zero, <<>>)
    ELSE Raised(f.exc)

\* lines 74-82
ParseCleaned(cleaned, indicator) ==
    IF cleaned = <<>> THEN Returned(Zero, <<>>)
    ELSE CatchValueError(PyFloat(cleaned), indicator)

\* lines 56-72: the indicator is cut off, the rest is cleaned
ParseStripped(stripped, indicator) ==
    ParseCleaned(Cleaned(IF indicator = <<>> THEN stripped
                         ELSE Strip(DropLast(stripped))),
                 indicator)

parse_brazilian_value(x) ==
    IF x.t = "none" THEN Returned(Zero, <<>>)
    ELSE IF x.t = "nan" THEN Returned(Zero, <<>>)
    ELSE IF x.t /= "str" THEN Returned(x.v, <<>>)
    ELSE IF Strip(x.s) = <<>> THEN Returned(Zero, <<>>)
    ELSE ParseStripped(Strip(x.s), Indicator(Strip(x.s)))

\* apply_sign returns a float, or raises the ValueError of line 119
apply_sign_by_group(value, indicator, account_group) ==
    IF indicator = <<>> THEN Returned(Zero, <<>>)
    ELSE IF account_group \notin {1, 2, 3, 4} THEN Raised("ValueError")
    ELSE IF Strip(Upper(indicator)) = <<"D">>
    THEN Returned(IF account_group \in {1, 4} THEN Abs(value) ELSE Neg(Abs(value)), <<>>)
    ELSE IF Strip(Upper(indicator)) = <<"C">>
    THEN Returned(IF account_group \in {1, 4} THEN Neg(Abs(value)) ELSE Abs(value), <<>>)
    ELSE Returned(Zero, <<>>)
apply_sign(value, indicator, account_group) ==
    IF indicator = <<>> THEN Returned(Zero, <<>>)
    ELSE IF account_group \notin {1, 2, 3, 4} THEN Raised("ValueError")
    ELSE IF Strip(Upper(indicator)) = <<"D">> THEN Returned(Abs(value), <<>>)
    ELSE IF Strip(Upper(indicator)) = <<"C">> THEN Returned(Neg(Abs(value)), <<>>)
    ELSE Returned(Zero, <<>>)

(***************************************************************************)
(* One call of apply_sign on bounded inputs.                               *)
(***************************************************************************)
\* the indicators tried: the three the parser produces, and off-contract ones
SignIndicators == {<<>>, <<"D">>, <<"C">>, <<"d">>, <<"c">>, <<" ">>, <<"X">>}
\* the group numbers tried: the four groups and out-of-range ones
SignGroups == {0, 1, 2, 3, 4, 5, 9}
SignValues == {<<n, 0>> : n \in 0..MaxMag} \cup {<<n, 2>> : n \in {1, 25}}
              \cup {<<-1, 0>>}

SignIdle ==
    /\ as_value = Zero
    /\ as_indicator = <<>>
    /\ as_group = 0
    /\ as_result = Pending

InitSignCall ==
    /\ as_value \in SignValues
    /\ as_indicator \in SignIndicators
    /\ as_group \in SignGroups
    /\ as_result = Pending

ApplySign ==
    /\ as_result.st = "pending"
    /\ as_result' = apply_sign(as_value, as_indicator, as_group)
    /\ UNCHANGED <<as_value, as_indicator, as_group>>

(***************************************************************************)
(* One call of parse_brazilian_value on bounded inputs: any string of at   *)
(* most MaxLen characters of ValueAlphabet, None, NaN, floats, and the     *)
(* Brazilian rendering of an amount.                                       *)
(***************************************************************************)
ValueAlphabet == {"1", "5", ".", ",", "-", "D", "c", " ", "x"}
StringsUpTo(n) == UNION {[1..k -> ValueAlphabet] : k \in 0..n}
ValueFloats == {Float(<<0, 0>>), Float(<<5, 0>>), Float(<<123456, 2>>),
                Float(<<-15, 1>>)}

\* the decimal digits of a natural number
RECURSIVE IntToStr(_)
IntToStr(n) ==
    IF n < 10 THEN <<Digits[n + 1]>>
    ELSE IntToStr(n \div 10) \o <<Digits[(n % 10) + 1]>>

\* digits grouped in threes from the right, '.' between the groups
RECURSIVE Thousands(_)
Thousands(ds) ==
    IF Len(ds) <= 3 THEN ds
    ELSE Thousands(SubSeq(ds, 1, Len(ds) - 3)) \o <<".">>
         \o SubSeq(ds, Len(ds) - 2, Len(ds))

\* an amount of m cents the way the export writes it: "1.234,56D"
FormatBR(m, i) ==
    Thousands(IntToStr(m \div 100)) \o <<",">>
    \o <<Digits[((m % 100) \div 10) + 1], Digits[(m % 10) + 1]>> \o <<i>>

\* the amounts formatted: every amount up to MaxCents, and larger ones with
\* one, two and three thousands groups
RoundTripAmounts ==
    (0..MaxCents) \cup {99999, 100000, 100050, 123456, 123456789, 1862365570}
RoundTripIndicators == {"D", "C", "d", "c"}

NoSrc == [m |-> -1, i |-> ""]

ValueIdle ==
    /\ pv_input = None
    /\ pv_src = NoSrc
    /\ pv_result = Pending

InitValueCall ==
    /\ pv_result = Pending
    /\ \/ /\ pv_src = NoSrc
          /\ pv_input \in {None, NaN} \cup ValueFloats
                          \cup {Str(s) : s \in StringsUpTo(MaxLen)}
       \/ /\ pv_src \in [m : RoundTripAmounts, i : RoundTripIndicators]
          /\ pv_input = Str(FormatBR(pv_src.m, pv_src.i))

ParseValue ==
    /\ pv_result.st = "pending"
    /\ pv_result' = parse_brazilian_value(pv_input)
    /\ UNCHANGED <<pv_input, pv_src>>

(***************************************************************************)
(* More of Python: str(), truthiness, float() and int() of cell values.    *)
(***************************************************************************)
RECURSIVE Pow10(_)
Pow10(k) == IF k = 0 THEN 1 ELSE 10 * Pow10(k - 1)

\* n written with exactly k digits (leading zeros)
RECURSIVE PadDigits(_, _)
PadDigits(n, k) ==
    IF k = 0 THEN <<>> ELSE PadDigits(n \div 10, k - 1) \o <<Digits[(n % 10) + 1]>>

\* repr of a float: "5.0", "1234.56", "-1.5" (magnitudes below 1e16)
FloatRepr(d) ==
    LET a == Abs(d)
        sign == IF d[1] < 0 THEN <<"-">> ELSE <<>>
    IN  sign \o IntToStr(a[1] \div Pow10(a[2])) \o <<".">>
        \o (IF a[2] = 0 THEN <<"0">> ELSE PadDigits(a[1] % Pow10(a[2]), a[2]))

\* str(x)
PyStr(x) ==
    CASE x.t = "str"   -> x.s
      [] x.t = "float" -> FloatRepr(x.v)
      [] x.t = "nan"   -> <<"n", "a", "n">>
      [] OTHER         -> <<"N", "o", "n", "e">>

\* bool(x): None, "" and 0.0 are false
Truthy(x) ==
    CASE x.t = "str"   -> x.s /= <<>>
      [] x.t = "float" -> x.v[1] /= 0
      [] x.t = "nan"   -> TRUE
      [] OTHER         -> FALSE

\* float(s) of a cell's text: a decimal with an optional sign, or one of the
\* special spellings inf / infinity / nan (any case, optional sign).
\* kind is "fin", "inf" or "nan"; exc = "ValueError" when s is no number.
TextFloat(exc, kind, val) == [exc |-> exc, kind |-> kind, val |-> val]

\* the text after its sign; neg: the sign was '-'
UnsignedText(rest, neg, f) ==
    IF Lower(rest) \in {<<"i", "n", "f">>,
                        <<"i", "n", "f", "i", "n", "i", "t", "y">>}
    THEN TextFloat("", "inf", Zero)
    ELSE IF Lower(rest) = <<"n", "a", "n">> THEN TextFloat("", "nan", Zero)
    ELSE IF f.exc /= "" \/ (rest /= <<>> /\ Head(rest) = "-")
    THEN TextFloat("ValueError", "fin", Zero)
    ELSE TextFloat("", "fin", IF neg THEN Neg(f.val) ELSE f.val)

StrippedText(body) ==
    IF body /= <<>> /\ Head(body) \in {"+", "-"}
    THEN UnsignedText(Tail(body), Head(body) = "-", PyFloat(Tail(body)))
    ELSE UnsignedText(body, FALSE, PyFloat(body))

PyFloatText(s) == StrippedText(Strip(s))

\* int(x) of a float: truncation; infinity raises OverflowError, NaN ValueError
PyInt(f) ==
    IF f.kind = "inf" THEN [exc |-> "OverflowError", n |-> 0]
    ELSE IF f.kind = "nan" THEN [exc |-> "ValueError", n |-> 0]
    ELSE IF f.val[1] < 0
    THEN [exc |-> "", n |-> -((-f.val[1]) \div Pow10(f.val[2]))]
    ELSE [exc |-> "", n |-> f.val[1] \div Pow10(f.val[2])]

(***************************************************************************)
(* header_extractor.py                                                     *)
(*                                                                         *)
(* A preamble cell is None or a text.  For the three cells searched with a *)
(* regular expression the text is given by the outcome of re.search: m is  *)
(* whether the pattern matches, and the captured digit groups follow.      *)
(***************************************************************************)
Date(d, mo, y) == [d |-> d, mo |-> mo, y |-> y]
Time(h, mi, s) == [h |-> h, mi |-> mi, s |-> s]
NoDate == Date(0, 0, 0)
NoTime == Time(0, 0, 0)

\* a call's outcome where only the exception matters: what names the failure
Ok == [type |-> "", what |-> ""]
Exc(type, what) == [type |-> type, what |-> what]

IsLeap(y) == (y % 4 = 0 /\ y % 100 /= 0) \/ y % 400 = 0
DaysIn(mo, y) ==
    IF mo = 2 THEN (IF IsLeap(y) THEN 29 ELSE 28)
    ELSE IF mo \in {4, 6, 9, 11} THEN 30 ELSE 31

\* datetime.strptime(text, "%d/%m/%Y") accepts the captured digits
StrptimeDateOk(dt) ==
    /\ dt.y >= 1
    /\ dt.mo \in 1..12
    /\ dt.d >= 1 /\ dt.d <= DaysIn(dt.mo, dt.y)

\* ... and "%H:%M:%S" (%S takes a leap second 60..61)
StrptimeTimeOk(tm) == tm.h \in 0..23 /\ tm.mi \in 0..59 /\ tm.s \in 0..61

\* _read_header_rows: the file must exist and be .xls or .xlsx
read_header_rows_exc(f) ==
    IF ~f.exists THEN Exc("FileNotFoundError", "file_not_found")
    ELSE IF f.ext \notin {".xls", ".xlsx"} THEN Exc("ValueError", "unsupported_format")
    ELSE Ok

\* the text searched in a preamble cell: str(cell).strip() if the row has
\* more than `col` columns and the cell is truthy, else "" (the .xls reader
\* yields min(7, ncols) columns, the .xlsx reader pads the rest with None)
HeaderCellPresent(f, cell, col) == f.ncols > col /\ cell.present

\* line 98: the company name
Empresa(f) ==
    IF f.ncols > 0 /\ Truthy(f.hdr.empresa) THEN Strip(PyStr(f.hdr.empresa))
    ELSE <<>>

\* "YYYY-MM" of a date, and the ISO renderings
YearMonth(dt) == PadDigits(dt.y, 4) \o <<"-">> \o PadDigits(dt.mo, 2)
IsoDate(dt) == YearMonth(dt) \o <<"-">> \o PadDigits(dt.d, 2)
IsoTime(tm) ==
    PadDigits(tm.h, 2) \o <<":">> \o PadDigits(tm.mi, 2) \o <<":">>
    \o PadDigits(tm.s, 2)

\* line 149
mes_referencia_of_start(periodo) == YearMonth(periodo.ini)
mes_referencia(periodo) == YearMonth(periodo.fim)

\* lines 151-158
is_anual_same_year(ini, fim) ==
    ini.mo = 1 /\ ini.d = 1 /\ fim.mo = 12 /\ fim.d = 31 /\ ini.y = fim.y
is_anual(ini, fim) == ini.mo = 1 /\ ini.d = 1 /\ fim.mo = 12 /\ fim.d = 31

NoHeader ==
    [empresa |-> <<>>, cnpj |-> <<>>, periodo_inicio |-> <<>>,
     periodo_fim |-> <<>>, emissao |-> <<>>, mes_referencia |-> <<>>,
     tipo |-> ""]

\* extract_header: exc names the first failure, in the order of the code
extract_header(f) ==
    LET h == f.hdr
        failure ==
            IF read_header_rows_exc(f).type /= "" THEN read_header_rows_exc(f)
            ELSE IF f.npre < 2 THEN Exc("ValueError", "header_rows")
            ELSE IF Empresa(f) = <<>> THEN Exc("ValueError", "empresa")
            ELSE IF ~(HeaderCellPresent(f, h.periodo, 5) /\ h.periodo.m)
                 THEN Exc("ValueError", "periodo")
            ELSE IF ~(StrptimeDateOk(h.periodo.ini) /\ StrptimeDateOk(h.periodo.fim))
                 THEN Exc("ValueError", "strptime")
            ELSE IF ~(HeaderCellPresent(f, h.cnpj, 0) /\ h.cnpj.m)
                 THEN Exc("ValueError", "cnpj")
            ELSE IF ~(HeaderCellPresent(f, h.emissao, 5) /\ h.emissao.m)
                 THEN Exc("ValueError", "emissao")
            ELSE IF ~(StrptimeDateOk(h.emissao.dt) /\ StrptimeTimeOk(h.emissao.tm))
                 THEN Exc("ValueError", "strptime")
            ELSE Ok
    IN  IF failure.type /= "" THEN [exc |-> failure, header |-> NoHeader]
        ELSE [exc |-> Ok,
              header |->
                [empresa        |-> Empresa(f),
                 cnpj           |-> h.cnpj.text,
                 periodo_inicio |-> IsoDate(h.periodo.ini),
                 periodo_fim    |-> IsoDate(h.periodo.fim),
                 emissao        |-> IsoDate(h.emissao.dt) \o <<"T">>
                                    \o IsoTime(h.emissao.tm),
                 mes_referencia |-> mes_referencia(h.periodo),
                 tipo |-> IF is_anual(h.periodo.ini, h.periodo.fim)
                          THEN "anual" ELSE "mensal"]]

(***************************************************************************)
(* balancete_parser.py                                                     *)
(*                                                                         *)
(* A data row is the tuple of its seven cells: 1 = Conta, 2 = Red,         *)
(* 3 = Titulo, 4 = Saldo Ant, 5 = Debitos, 6 = Creditos, 7 = Saldo Atual   *)
(* (the code's columns 0..6).                                              *)
(***************************************************************************)
TotalGeral == <<"t", "o", "t", "a", "l", " ", "g", "e", "r", "a", "l">>

\* lines 20-27
GroupOf(c) ==
    CASE c = "1" -> [grupo |-> "ATIVO",   grupo_num |-> 1]
      [] c = "2" -> [grupo |-> "PASSIVO", grupo_num |-> 2]
      [] c = "3" -> [grupo |-> "RECEITA", grupo_num |-> 3]
      [] c = "4" -> [grupo |-> "DESPESA", grupo_num |-> 4]
      [] c = "5" -> [grupo |-> "DESPESA", grupo_num |-> 4]
      [] OTHER   -> [grupo |-> "", grupo_num |-> 0]

\* the row as the reader yields it: the .xls reader stops at min(7, ncols)
\* columns, the .xlsx reader (max_col=7) pads with None
ReadRow(f, row) ==
    IF f.ext = ".xls" THEN SubSeq(row, 1, IF f.ncols < 7 THEN f.ncols ELSE 7)
    ELSE [k \in 1..7 |-> IF k <= f.ncols THEN row[k] ELSE None]

\* lines 75-76 / 102-103: the row that ends the data
IsTotalGeral(row) ==
    LET cell0 == IF row /= <<>> /\ Truthy(row[1]) THEN Strip(PyStr(row[1]))
                 ELSE <<>>
    IN  Contains(Lower(cell0), TotalGeral)

\* _read_xls_data / _read_xlsx_data: the rows from index 3 up to the sentinel
RECURSIVE ReadUntilTotal_skip_only(_, _)
ReadUntilTotal_skip_only(f, rows) ==
    IF rows = <<>> THEN <<>>
    ELSE IF IsTotalGeral(ReadRow(f, Head(rows)))
    THEN ReadUntilTotal_skip_only(f, Tail(rows))
    ELSE <<ReadRow(f, Head(rows))>> \o ReadUntilTotal_skip_only(f, Tail(rows))
RECURSIVE ReadUntilTotal(_, _)
ReadUntilTotal(f, rows) ==
    IF rows = <<>> THEN <<>>
    ELSE IF IsTotalGeral(ReadRow(f, Head(rows))) THEN <<>>
    ELSE <<ReadRow(f, Head(rows))>> \o ReadUntilTotal(f, Tail(rows))

\* _read_data_rows
read_data_rows(f) ==
    IF ~f.exists THEN [exc |-> Exc("FileNotFoundError", "file_not_found"), rows |-> <<>>]
    ELSE IF f.ext \notin {".xls", ".xlsx"}
         THEN [exc |-> Exc("ValueError", "unsupported_format"), rows |-> <<>>]
    ELSE [exc |-> Ok, rows |-> ReadUntilTotal(f, f.rows)]

\* _determine_account_level
determine_account_level_dots(codigo) == Count(codigo, ".")
determine_account_level(codigo) ==
    IF codigo = <<>> THEN 0 ELSE Count(codigo, ".") + 1

\* _get_account_group
get_account_group(codigo) ==
    IF codigo = <<>> THEN [exc |-> Exc("ValueError", "empty_code"), g |-> GroupOf("")]
    ELSE IF GroupOf(Head(codigo)).grupo_num /= 0
         THEN [exc |-> Ok, g |-> GroupOf(Head(codigo))]
    ELSE [exc |-> Exc("ValueError", "unknown_group"), g |-> GroupOf("")]

\* line 204: the account code of a row
CodigoConta(row) == IF row[1].t /= "none" THEN Strip(PyStr(row[1])) ELSE <<>>

\* line 210
TituloConta(row) ==
    IF Len(row) > 2 /\ row[3].t /= "none" THEN Strip(PyStr(row[3])) ELSE <<>>

\* lines 212-219: Red; some = FALSE is Python's None.  Only ValueError and
\* TypeError are caught.
NoRed == [exc |-> Ok, some |-> FALSE, n |-> 0]
SomeRed(n) == [exc |-> Ok, some |-> TRUE, n |-> n]

\* int(float(text)): the exception of float(), else that of int()
IntOfFloat(f) == IF f.exc /= "" THEN [exc |-> f.exc, n |-> 0] ELSE PyInt(f)

RedOf(r) ==
    IF r.exc = "" THEN SomeRed(r.n)
    ELSE IF r.exc \in {"ValueError", "TypeError"} THEN NoRed
    ELSE [exc |-> Exc(r.exc, "red"), some |-> FALSE, n |-> 0]

RedText(red_raw) ==
    IF red_raw.t = "none" \/ Strip(PyStr(red_raw)) = <<>> THEN NoRed
    ELSE RedOf(IntOfFloat(PyFloatText(Strip(PyStr(red_raw)))))

ParseRed(row) == RedText(IF Len(row) > 1 THEN row[2] ELSE None)

\* lines 228-231: the text of an amount cell (column k of the code)
ZeroText == <<"0", ",", "0", "0">>
AmountText(row, k) ==
    IF Len(row) > k /\ row[k + 1].t /= "none" THEN PyStr(row[k + 1]) ELSE ZeroText

NoRecord ==
    [codigo_conta |-> <<>>, titulo_conta |-> <<>>, red |-> [some |-> FALSE, n |-> 0],
     nivel |-> 0, tipo |-> "", grupo |-> "", grupo_num |-> 0,
     saldo_anterior |-> Zero, debitos |-> Zero, creditos |-> Zero,
     saldo_atual |-> Zero, indicador_dc |-> <<>>, periodo |-> <<>>]

\* the first exception among the calls of one row, in the order of the code
FirstExc(excs) ==
    IF \E i \in 1..Len(excs) : excs[i].type /= ""
    THEN excs[CHOOSE i \in 1..Len(excs) :
                /\ excs[i].type /= ""
                /\ \A j \in 1..(i - 1) : excs[j].type = ""]
    ELSE Ok

CallExc(r, what) == IF r.st = "raised" THEN Exc(r.exc, what) ELSE Ok

\* lines 203-258: one iteration of the loop; skip = TRUE is the `continue`
Skipped == [exc |-> Ok, skip |-> TRUE, rec |-> NoRecord]
RowResult(exc, rec) ==
    IF exc.type /= "" THEN [exc |-> exc, skip |-> FALSE, rec |-> NoRecord]
    ELSE [exc |-> Ok, skip |-> FALSE, rec |-> rec]

\* lines 233-236: the four amounts, by the code's column
Amounts(row) ==
    [k \in 3..6 |-> parse_brazilian_value(Str(AmountText(row, k)))]

\* lines 239-240: the two signed balances
Balances(amt, grupo_num) ==
    [k \in {3, 6} |-> apply_sign(amt[k].val, amt[k].ind, grupo_num)]

BuildRecord(row, periodo, codigo_conta, red, group, amt, bal) ==
    RowResult(
        FirstExc(<<red.exc, group.exc>>
                 \o [k \in 1..4 |-> CallExc(amt[k + 2], "amount")]
                 \o <<CallExc(bal[3], "invalid_group"),
                      CallExc(bal[6], "invalid_group")>>),
        [codigo_conta   |-> codigo_conta,
         titulo_conta   |-> TituloConta(row),
         red            |-> [some |-> red.some, n |-> red.n],
         nivel          |-> determine_account_level(codigo_conta),
         tipo           |-> "",
         grupo          |-> group.g.grupo,
         grupo_num      |-> group.g.grupo_num,
         saldo_anterior |-> bal[3].val,
         debitos        |-> Abs(amt[4].val),
         creditos       |-> Abs(amt[5].val),
         saldo_atual    |-> bal[6].val,
         indicador_dc   |-> amt[6].ind,
         periodo        |-> periodo])

WithGroup(row, periodo, codigo_conta, group, amt) ==
    BuildRecord(row, periodo, codigo_conta, ParseRed(row), group, amt,
                Balances(amt, group.g.grupo_num))

ParseRow(row, periodo) ==
    IF CodigoConta(row) = <<>> THEN Skipped
    ELSE WithGroup(row, periodo, CodigoConta(row),
                   get_account_group(CodigoConta(row)), Amounts(row))

\* lines 200-258: the loop; it ends at the first row that raises
RECURSIVE ParseRows(_, _, _)
LoopStep(r, rest, periodo, acc) ==
    IF r.skip THEN ParseRows(rest, periodo, acc)
    ELSE IF r.exc.type /= "" THEN [exc |-> r.exc, records |-> <<>>]
    ELSE ParseRows(rest, periodo, Append(acc, r.rec))
ParseRows(rows, periodo, acc) ==
    IF rows = <<>> THEN [exc |-> Ok, records |-> acc]
    ELSE LoopStep(ParseRow(Head(rows), periodo), Tail(rows), periodo, acc)

\* lines 260-270: Macro when the next record is deeper
Macro == "Macro"
Leaf == "Ultimo Nivel"
Tipo_not_shallower(recs, i) ==
    IF i + 1 <= Len(recs) /\ recs[i + 1].nivel >= recs[i].nivel
    THEN Macro ELSE Leaf
Tipo(recs, i) ==
    IF i + 1 <= Len(recs)
    THEN (IF recs[i + 1].nivel > recs[i].nivel THEN Macro ELSE Leaf)
    ELSE Leaf

DetermineTipo(recs) ==
    [i \in 1..Len(recs) |-> [recs[i] EXCEPT !.tipo = Tipo(recs, i)]]

(***************************************************************************)
(* One call of parse_balancete(filepath) on a bounded file.                *)
(***************************************************************************)
NoResult == [st |-> "pending", exc |-> Ok, header |-> NoHeader, df |-> <<>>]
Failure(exc) == [st |-> "raised", exc |-> exc, header |-> NoHeader, df |-> <<>>]
Success(h, df) == [st |-> "returned", exc |-> Ok, header |-> h, df |-> df]

\* ---- the files explored --------------------------------------------------
Row(conta, red, saldo_ant, debitos, creditos, saldo_atual) ==
    <<conta, red, Str(<<"C", "a", "i", "x", "a">>), saldo_ant, debitos, creditos, saldo_atual>>

T_1 == <<"1">>
T_1_01 == <<"1", ".", "0", "1">>
T_1_01_01 == <<"1", ".", "0", "1", ".", "0", "1">>
T_2 == <<"2">>
T_2_01 == <<"2", ".", "0", "1">>
T_9 == <<"9">>
T_Total == <<"T", "o", "t", "a", "l", " ", "G", "e", "r", "a", "l">>
T_TOTAL == <<"T", "O", "T", "A", "L", " ", "G", "e", "r", "a", "l", ":">>
T_inf == <<"i", "n", "f">>
T_zero == ZeroText
T_150D == <<"1", ",", "5", "0", "D">>
T_200C == <<"2", ",", "0", "0", "C">>

\* account-code cells of the files that explore the row structure
StructCodes ==
    {None, Str(<<" ">>), Str(T_1), Str(T_1_01), Str(T_1_01_01), Str(T_2),
     Str(T_2_01), Str(T_9), Str(T_Total)}
\* account-code cells of the one-row files
CellCodes == {Str(T_1), Str(T_2), Str(<<"3", ".", "0", "1">>), Str(<<"4">>), Str(<<"5", ".", "1">>)}
OddCodes ==
    {Str(T_TOTAL), Str(<<" ", "1", ".", "0", "1", " ">>), Str(<<"1", ".">>), Str(<<"x", "1">>), Str(<<>>),
     Float(<<0, 0>>), Float(<<1, 0>>), Str(<<"s", "u", "b", " ", "t", "o", "t", "a", "l", " ", "g", "e", "r", "a", "l">>)}
RedCells ==
    {None, Str(<<>>), Str(<<"1", "2">>), Str(<<" ", "5", " ">>), Str(<<"7", ".", "9">>), Float(<<7, 0>>),
     Str(<<"a", "b", "c">>), Str(T_inf), Str(<<"-", "I", "n", "f">>), Str(<<"n", "a", "n">>), Str(<<"+", "3">>)}
AmountCells ==
    {None, Str(T_zero), Str(T_150D), Str(T_200C), Str(<<"1", ",", "5", "0">>), Str(<<"-", "3", ",", "0", "0", "d">>),
     Str(<<"a", "b", "c">>), Str(T_inf), Str(<<"n", "a", "n">>), Str(<<"D">>), Str(<<"1", ".", "2", "3", "4", ",", "5", "6", "D">>),
     Float(<<123456, 2>>)}

PlainRow(conta) == Row(conta, None, Str(T_150D), Str(T_zero), Str(T_zero), Str(T_150D))

StructRows ==
    {PlainRow(c) : c \in StructCodes}
    \cup {Row(c, Str(T_inf), Str(T_150D), Str(T_zero), Str(T_zero), Str(T_200C)) :
            c \in {Str(T_1), Str(T_9)}}

CellRows ==
    {Row(c, None, a, Str(T_zero), Str(T_zero), b) :
        c \in CellCodes, a \in AmountCells, b \in AmountCells}
    \cup {Row(Str(T_1), None, Str(T_zero), a, b, Str(T_zero)) :
            a \in AmountCells, b \in AmountCells}
    \cup {Row(c, r, Str(T_150D), Str(T_zero), Str(T_zero), Str(T_200C)) :
            c \in {Str(T_1), Str(T_9)}, r \in RedCells}
    \cup {PlainRow(c) : c \in OddCodes}

SeqsUpTo(S, n) == UNION {[1..k -> S] : k \in 0..n}

\* preamble cells
GoodPeriodo ==
    [present |-> TRUE, m |-> TRUE, ini |-> Date(1, 1, 2025), fim |-> Date(31, 12, 2025)]
Periodos ==
    {GoodPeriodo,
     [present |-> TRUE, m |-> TRUE, ini |-> Date(1, 3, 2025), fim |-> Date(31, 3, 2025)],
     [present |-> TRUE, m |-> TRUE, ini |-> Date(1, 1, 2024), fim |-> Date(31, 12, 2025)],
     [present |-> TRUE, m |-> TRUE, ini |-> Date(1, 2, 2025), fim |-> Date(31, 2, 2025)],
     [present |-> TRUE, m |-> TRUE, ini |-> Date(2, 1, 2025), fim |-> Date(31, 12, 2025)],
     [present |-> TRUE, m |-> TRUE, ini |-> Date(1, 1, 2025), fim |-> Date(30, 12, 2025)],
     [present |-> TRUE, m |-> TRUE, ini |-> Date(1, 12, 2024), fim |-> Date(31, 1, 2025)],
     [present |-> TRUE, m |-> FALSE, ini |-> NoDate, fim |-> NoDate],
     [present |-> FALSE, m |-> FALSE, ini |-> NoDate, fim |-> NoDate]}
GoodCnpj == [present |-> TRUE, m |-> TRUE, text |-> <<"2", "3", ".", "3", "1", "3", ".", "2", "0", "0", "/", "0", "0", "0", "1", "-", "0", "8">>]
Cnpjs == {GoodCnpj, [present |-> TRUE, m |-> FALSE, text |-> <<>>]}
GoodEmissao ==
    [present |-> TRUE, m |-> TRUE, dt |-> Date(4, 2, 2026), tm |-> Time(17, 23, 21)]
Emissoes ==
    {GoodEmissao,
     [present |-> TRUE, m |-> FALSE, dt |-> NoDate, tm |-> NoTime]}
GoodEmpresa == Str(<<"A", "C", "M", "E">>)
Empresas == {GoodEmpresa, None, Str(<<" ">>)}

GoodHdr ==
    [empresa |-> GoodEmpresa, periodo |-> GoodPeriodo, cnpj |-> GoodCnpj,
     emissao |-> GoodEmissao]
Hdrs == [empresa : Empresas, periodo : Periodos, cnpj : Cnpjs, emissao : Emissoes]

File(exists, ext, ncols, npre, hdr, rows) ==
    [exists |-> exists, ext |-> ext, ncols |-> ncols, npre |-> npre,
     hdr |-> hdr, rows |-> rows]

Files ==
    \* the row structure: up to MaxRows rows, a well-formed preamble
    {File(TRUE, ".xls", 7, 3, GoodHdr, rows) : rows \in SeqsUpTo(StructRows, MaxRows)}
    \* the cells of one row, in both formats
    \cup {File(TRUE, ext, 7, 3, GoodHdr, <<row>>) :
            ext \in {".xls", ".xlsx"}, row \in CellRows}
    \* the preamble
    \cup {File(TRUE, ".xlsx", 7, 3, hdr, rows) :
            hdr \in Hdrs,
            rows \in {<<>>, <<PlainRow(Str(T_1))>>, <<PlainRow(Str(T_9))>>}}
    \* the file itself: missing, other formats, fewer columns or rows
    \cup {File(exists, ext, ncols, npre, GoodHdr,
                IF npre = 3 /\ some THEN <<PlainRow(Str(T_1_01))>> ELSE <<>>) :
            exists \in BOOLEAN, ext \in {".xls", ".xlsx", ".csv"},
            ncols \in {5, 6, 7}, npre \in 0..3, some \in BOOLEAN}

ParseIdle ==
    /\ file = File(FALSE, "", 0, 0, GoodHdr, <<>>)
    /\ pc = "idle"
    /\ header = NoHeader
    /\ raw_rows = <<>>
    /\ records = <<>>
    /\ result = NoResult

InitParseCall ==
    /\ file \in Files
    /\ pc = "header"
    /\ header = NoHeader
    /\ raw_rows = <<>>
    /\ records = <<>>
    /\ result = NoResult

\* line 190: header = extract_header(filepath)
ExtractHeader ==
    /\ pc = "header"
    /\ LET h == extract_header(file)
       IN  IF h.exc.type /= ""
           THEN /\ result' = Failure(h.exc)
                /\ pc' = "done"
                /\ header' = header
           ELSE /\ header' = h.header
                /\ pc' = "read"
                /\ result' = result
    /\ UNCHANGED <<file, raw_rows, records>>

\* lines 194-197: raw_rows = _read_data_rows(filepath); none is an error
ReadDataRows ==
    /\ pc = "read"
    /\ LET r == read_data_rows(file)
       IN  IF r.exc.type /= ""
           THEN /\ result' = Failure(r.exc)
                /\ pc' = "done"
                /\ raw_rows' = raw_rows
           ELSE IF r.rows = <<>>
           THEN /\ result' = Failure(Exc("ValueError", "no_data_rows"))
                /\ pc' = "done"
                /\ raw_rows' = raw_rows
           ELSE /\ raw_rows' = r.rows
                /\ pc' = "rows"
                /\ result' = result
    /\ UNCHANGED <<file, header, records>>

\* lines 200-258: the loop over raw_rows
ParseDataRows ==
    /\ pc = "rows"
    /\ LET r == ParseRows(raw_rows, header.mes_referencia, <<>>)
       IN  IF r.exc.type /= ""
           THEN /\ result' = Failure(r.exc)
                /\ pc' = "done"
                /\ records' = records
           ELSE /\ records' = r.records
                /\ pc' = "tipo"
                /\ result' = result
    /\ UNCHANGED <<file, header, raw_rows>>

\* lines 260-275: the types, the DataFrame, the return
ClassifyAndReturn ==
    /\ pc = "tipo"
    /\ records' = DetermineTipo(records)
    /\ result' = Success(header, DetermineTipo(records))
    /\ pc' = "done"
    /\ UNCHANGED <<file, header, raw_rows>>

(***************************************************************************)
(* IEEE-754 doubles, for the validators' sums and tolerance tests.         *)
(*                                                                         *)
(* A double is a sign and a magnitude counted in units of 2^-60, held as   *)
(* four limbs of 24 bits, most significant first.  Every double between    *)
(* 0.01 and 4096 is a whole number of such units, and so is every sum or   *)
(* difference of such doubles; a result is rounded to 53 significant bits, *)
(* ties to even, as the hardware does.                                     *)
(***************************************************************************)
RECURSIVE Pow2(_)
Pow2(k) == IF k = 0 THEN 1 ELSE 2 * Pow2(k - 1)

Limb == Pow2(24)
MagZero == <<0, 0, 0, 0>>

RECURSIVE BitLen(_)
BitLen(n) == IF n = 0 THEN 0 ELSE 1 + BitLen(n \div 2)

MagBits(x) ==
    IF x[1] > 0 THEN 72 + BitLen(x[1])
    ELSE IF x[2] > 0 THEN 48 + BitLen(x[2])
    ELSE IF x[3] > 0 THEN 24 + BitLen(x[3])
    ELSE BitLen(x[4])

\* x + y, limb i downward, with the carry of the limbs below
RECURSIVE AddFrom(_, _, _, _)
AddFrom(x, y, i, carry) ==
    IF i = 0 THEN <<>>
    ELSE AddFrom(x, y, i - 1, (x[i] + y[i] + carry) \div Limb)
         \o <<(x[i] + y[i] + carry) % Limb>>
MagAdd(x, y) == AddFrom(x, y, 4, 0)

\* x - y for x >= y, with the borrow of the limbs below
RECURSIVE SubFrom(_, _, _, _)
SubFrom(x, y, i, borrow) ==
    IF i = 0 THEN <<>>
    ELSE SubFrom(x, y, i - 1, IF x[i] - y[i] - borrow < 0 THEN 1 ELSE 0)
         \o <<(x[i] - y[i] - borrow + Limb) % Limb>>
MagSub(x, y) == SubFrom(x, y, 4, 0)

MagLess(x, y) ==
    \E i \in 1..4 : x[i] < y[i] /\ \A j \in 1..(i - 1) : x[j] = y[j]

\* x * m for a small m, limb i downward
RECURSIVE MulFrom(_, _, _, _)
MulFrom(x, m, i, carry) ==
    IF i = 0 THEN <<>>
    ELSE MulFrom(x, m, i - 1, (x[i] * m + carry) \div Limb)
         \o <<(x[i] * m + carry) % Limb>>
MagMul(x, m) == MulFrom(x, m, 4, 0)

\* x divided by a small d, limb i upward: quotient q and remainder r
RECURSIVE DivFrom(_, _, _, _, _)
DivFrom(x, d, i, rem, acc) ==
    IF i > 4 THEN [q |-> acc, r |-> rem]
    ELSE DivFrom(x, d, i + 1, (rem * Limb + x[i]) % d,
                 Append(acc, (rem * Limb + x[i]) \div d))
MagDiv(x, d) == DivFrom(x, d, 1, 0, <<>>)

\* x with its s lowest bits (0 < s < 24) rounded away, ties to even; sticky:
\* the exact value lies above x
RoundBits(x, s, sticky) ==
    IF (x[4] % Pow2(s)) > Pow2(s - 1)
       \/ ((x[4] % Pow2(s)) = Pow2(s - 1)
            /\ (sticky \/ (x[4] \div Pow2(s)) % 2 = 1))
    THEN MagAdd(<<x[1], x[2], x[3], x[4] - (x[4] % Pow2(s))>>,
                <<0, 0, 0, Pow2(s)>>)
    ELSE <<x[1], x[2], x[3], x[4] - (x[4] % Pow2(s))>>

\* x rounded to 53 significant bits
Round53(x, sticky) ==
    IF MagBits(x) <= 53 THEN x ELSE RoundBits(x, MagBits(x) - 53, sticky)

Double(neg, mag) == [neg |-> neg /\ mag /= MagZero, mag |-> mag]

\* the double nearest to c / 100, for a whole number of cents c
RoundedQuotient(d) == Round53(d.q, d.r > 0)
CentsMag(c) ==
    IF c = 0 THEN MagZero
    ELSE RoundedQuotient(MagDiv(<<(c * 4096) \div Limb, (c * 4096) % Limb, 0, 0>>, 100))
Dbl(c) == IF c < 0 THEN Double(TRUE, CentsMag(-c)) ELSE Double(FALSE, CentsMag(c))

\* the double of an exact decimal <<n, k>> with at most two decimals
DblOf(d) == Dbl(d[1] * Pow10(2 - d[2]))

FNeg(a) == Double(~a.neg, a.mag)
FAbs(a) == Double(FALSE, a.mag)
\* a + b, a - b: the exact result rounded once
FAdd(a, b) ==
    IF a.neg = b.neg THEN Double(a.neg, Round53(MagAdd(a.mag, b.mag), FALSE))
    ELSE IF MagLess(a.mag, b.mag)
    THEN Double(b.neg, Round53(MagSub(b.mag, a.mag), FALSE))
    ELSE Double(a.neg, Round53(MagSub(a.mag, b.mag), FALSE))
FSub(a, b) == FAdd(a, FNeg(b))
\* a <= b for a, b >= 0
FLeq(a, b) == ~MagLess(b.mag, a.mag)

\* Series.sum() of fewer than 8 doubles: added one by one from 0.0
RECURSIVE FSumFrom(_, _)
FSumFrom(acc, xs) ==
    IF xs = <<>> THEN acc ELSE FSumFrom(FAdd(acc, Head(xs)), Tail(xs))
FSum(xs) == FSumFrom(Dbl(0), xs)

\* round(x, 2) in whole cents: x * 100 / 2^60 to the nearest, ties to even
CentsOfScaled(w) ==
    IF (w[2] % 4096) > 2048
       \/ ((w[2] % 4096) = 2048
            /\ (w[3] /= 0 \/ w[4] /= 0 \/ (w[2] \div 4096) % 2 = 1))
    THEN w[1] * 4096 + (w[2] \div 4096) + 1
    ELSE w[1] * 4096 + (w[2] \div 4096)
Round2(a) ==
    IF a.neg THEN -CentsOfScaled(MagMul(a.mag, 100))
    ELSE CentsOfScaled(MagMul(a.mag, 100))


(***************************************************************************)
(* validators/hierarchy_validator.py                                       *)
(*                                                                         *)
(* A DataFrame is its set of column names and its rows in order.  A row's  *)
(* saldo_atual is an exact decimal that stands for the double nearest to   *)
(* it, the value float() of the parser gave; the sums, differences and     *)
(* tolerance tests are made on the doubles.                                *)
(***************************************************************************)
LedgerRow(codigo, tipo, saldo) ==
    [codigo_conta |-> codigo, titulo_conta |-> <<"T">>,
     nivel |-> determine_account_level(codigo), tipo |-> tipo,
     saldo_atual |-> saldo]
DataFrame(columns, rows) == [columns |-> columns, rows |-> rows]
LedgerColumns == {"codigo_conta", "titulo_conta", "nivel", "tipo", "saldo_atual"}

\* line 14
TOLERANCE == Dbl(2)

\* a validator's outcome: it returns val, or raises exc
Validated(val) == [st |-> "returned", exc |-> "", val |-> val]
ValidationRaised(exc) == [st |-> "raised", exc |-> exc, val |-> <<>>]
NotValidated == [st |-> "pending", exc |-> "", val |-> <<>>]

\* _validate_required_columns: the columns that are missing
validate_required_columns_unchecked(df, required) == {}
validate_required_columns(df, required) == required \ df.columns

\* str.startswith(prefix)
StartsWith(s, prefix) ==
    Len(s) >= Len(prefix) /\ SubSeq(s, 1, Len(prefix)) = prefix

\* the rows of a selection, and a column of them
Codes(rows) == [i \in 1..Len(rows) |-> rows[i].codigo_conta]
Saldos(rows) == [i \in 1..Len(rows) |-> DblOf(rows[i].saldo_atual)]

\* lines 65-68: rows under the prefix, one level below the parent
filhos_diretos_any_depth(df, prefix, nivel_filho_direto) ==
    SelectSeq(df.rows, LAMBDA r : StartsWith(r.codigo_conta, prefix))
filhos_diretos(df, prefix, nivel_filho_direto) ==
    SelectSeq(df.rows, LAMBDA r : /\ StartsWith(r.codigo_conta, prefix)
                                  /\ r.nivel = nivel_filho_direto)
\* lines 89-92: rows under the prefix, deeper than that
filhos_skip(df, prefix, nivel_filho_direto) ==
    SelectSeq(df.rows, LAMBDA r : /\ StartsWith(r.codigo_conta, prefix)
                                  /\ r.nivel > nivel_filho_direto)
\* lines 98-101: rows under the prefix typed "Ultimo Nivel"
all_descendants_leaf(df, prefix) ==
    SelectSeq(df.rows, LAMBDA r : /\ StartsWith(r.codigo_conta, prefix)
                                  /\ r.tipo = Leaf)

\* lines 83-127: the status, and which message goes with it
StatusOf_error_when_unreconciled(diferenca, skip, diff_leaf) ==
    IF FLeq(diferenca, TOLERANCE) THEN [status |-> "OK", mensagem |-> ""]
    ELSE IF FLeq(diff_leaf, TOLERANCE)
    THEN [status |-> "WARNING", mensagem |-> "ultimos_niveis_batem"]
    ELSE [status |-> "ERROR", mensagem |-> "difere_dos_filhos_diretos"]
StatusOf(diferenca, skip, diff_leaf) ==
    IF FLeq(diferenca, TOLERANCE) THEN [status |-> "OK", mensagem |-> ""]
    ELSE IF skip /= <<>>
    THEN (IF FLeq(diff_leaf, TOLERANCE)
          THEN [status |-> "WARNING", mensagem |-> "ultimos_niveis_batem"]
          ELSE [status |-> "WARNING", mensagem |-> "hierarquia_irregular"])
    ELSE [status |-> "ERROR", mensagem |-> "difere_dos_filhos_diretos"]

\* lines 74-81 and the status: the finding of one Macro row
FindingOf(row, filhos_codes, saldo_pai, soma_filhos, diferenca, st) ==
    [conta_pai   |-> row.codigo_conta,
     titulo_pai  |-> row.titulo_conta,
     saldo_pai   |-> Round2(saldo_pai),
     soma_filhos |-> Round2(soma_filhos),
     diferenca   |-> Round2(diferenca),
     filhos      |-> filhos_codes,
     status      |-> st.status,
     mensagem    |-> st.mensagem]

\* lines 72, 83-127
WithDiferenca(df, row, prefix, filhos, saldo_pai, soma_filhos, diferenca) ==
    FindingOf(row, Codes(filhos), saldo_pai, soma_filhos, diferenca,
              StatusOf(diferenca,
                       filhos_skip(df, prefix, row.nivel + 1),
                       FAbs(FSub(saldo_pai,
                                 FSum(Saldos(all_descendants_leaf(df, prefix)))))))

\* lines 59, 70-72
WithSums(df, row, prefix, filhos, saldo_pai, soma_filhos) ==
    WithDiferenca(df, row, prefix, filhos, saldo_pai, soma_filhos,
                  FAbs(FSub(saldo_pai, soma_filhos)))

WithChildren(df, row, prefix, filhos) ==
    WithSums(df, row, prefix, filhos, DblOf(row.saldo_atual), FSum(Saldos(filhos)))

\* lines 57-129: one iteration of the loop over the Macro rows
MacroFinding(df, row) ==
    WithChildren(df, row, row.codigo_conta \o <<".">>,
                 filhos_diretos(df, row.codigo_conta \o <<".">>, row.nivel + 1))

\* lines 51, 56, 129: the Macro rows in order, one finding each
macros_and_leaves(df) == df.rows
macros(df) == SelectSeq(df.rows, LAMBDA r : r.tipo = Macro)

validate_hierarchy(df) ==
    IF validate_required_columns(df, LedgerColumns) /= {}
    THEN ValidationRaised("ValueError")
    ELSE Validated([i \in 1..Len(macros(df)) |-> MacroFinding(df, macros(df)[i])])

\* lines 171-176: the balance of the first row with that code, 0.0 if none
RowsOf(df, codigo) == SelectSeq(df.rows, LAMBDA r : r.codigo_conta = codigo)
SaldoOfRows(rows) == IF rows = <<>> THEN Dbl(0) ELSE DblOf(Head(rows).saldo_atual)
get_saldo(df, codigo) == SaldoOfRows(RowsOf(df, codigo))

T_1_02 == <<"1", ".", "0", "2">>
T_10_01 == <<"1", "0", ".", "0", "1">>
T_2_02 == <<"2", ".", "0", "2">>
T_2_03 == <<"2", ".", "0", "3">>
T_3 == <<"3">>
T_4 == <<"4">>
T_5 == <<"5">>

\* lines 204-219
BalanceResult(ativo_total, passivo_pl_total, receita_total, despesa_total, ativo_decomposicao, passivo_decomposicao, resultado_exercicio, bp_total) ==
    [ativo_total         |-> Round2(ativo_total),
     passivo_pl_total    |-> Round2(passivo_pl_total),
     diferenca_bp        |-> Round2(bp_total),
     resultado_exercicio |-> Round2(resultado_exercicio),
     receita_total       |-> Round2(receita_total),
     despesa_total       |-> Round2(despesa_total),
     checks |-> [ativo_decomposicao   |-> ativo_decomposicao,
                 passivo_decomposicao |-> passivo_decomposicao,
                 bp_equilibrio        |-> FLeq(FAbs(bp_total), TOLERANCE)]]

\* lines 202-204
WithResultado(ativo_total, passivo_pl_total, receita_total, despesa_total, ativo_decomposicao, passivo_decomposicao, resultado_exercicio) ==
    BalanceResult(ativo_total, passivo_pl_total, receita_total, despesa_total,
                  ativo_decomposicao, passivo_decomposicao, resultado_exercicio,
                  FAdd(FAdd(ativo_total, passivo_pl_total), resultado_exercicio))

\* lines 194-202
WithTotals(ativo_total, passivo_pl_total, receita_total, despesa_total, soma_ativo, soma_passivo) ==
    WithResultado(ativo_total, passivo_pl_total, receita_total, despesa_total,
                  FLeq(FAbs(FSub(ativo_total, soma_ativo)), TOLERANCE),
                  FLeq(FAbs(FSub(passivo_pl_total, soma_passivo)), TOLERANCE),
                  FAdd(receita_total, despesa_total))

\* lines 179-199
validate_balance_sheet(df) ==
    IF validate_required_columns(df, {"codigo_conta", "saldo_atual"}) /= {}
    THEN ValidationRaised("ValueError")
    ELSE Validated(
            WithTotals(get_saldo(df, T_1), get_saldo(df, T_2),
                       get_saldo(df, T_3), get_saldo(df, T_4),
                       FAdd(get_saldo(df, T_1_01), get_saldo(df, T_1_02)),
                       FAdd(FAdd(get_saldo(df, T_2_01), get_saldo(df, T_2_02)),
                            get_saldo(df, T_2_03))))

(***************************************************************************)
(* One call of validate_hierarchy.  Two families of ledgers: a parent with *)
(* up to two direct children whose balances sit around the tolerance, and  *)
(* any ledger of at most MaxLedger rows drawn from StructureRows, which    *)
(* has deeper rows, another branch, a code that shares only the text "1",  *)
(* and Macro children.  DataFrames lacking a required column are tried too.*)
(***************************************************************************)
\* balances in cents around zero and around 1.00, both signs
TolCents == {s * (b + k) : s \in {-1, 1}, b \in {0, 100}, k \in 0..MaxGap}
OptionalRow(codigo, tipo, cents) ==
    {<<>>} \cup {<<LedgerRow(codigo, tipo, Norm(c, 2))>> : c \in cents}

ToleranceLedgers ==
    {<<LedgerRow(T_1, Macro, Norm(p, 2))>> \o a \o b :
        p \in TolCents,
        a \in OptionalRow(T_1_01, Leaf, TolCents),
        b \in OptionalRow(T_1_02, Leaf, TolCents)}

StructureRows ==
    {LedgerRow(T_1, Macro, <<100, 0>>),
     LedgerRow(T_1_01, Leaf, <<100, 0>>),
     LedgerRow(T_1_01, Leaf, <<60, 0>>),
     LedgerRow(T_1_01, Macro, <<60, 0>>),
     LedgerRow(T_1_02, Leaf, <<40, 0>>),
     LedgerRow(T_1_02, Macro, <<40, 0>>),
     LedgerRow(T_1_01_01, Leaf, <<60, 0>>),
     LedgerRow(T_1_01_01, Leaf, <<100, 0>>),
     LedgerRow(T_10_01, Leaf, <<100, 0>>),
     LedgerRow(T_2, Macro, <<0, 0>>),
     LedgerRow(T_2_01, Leaf, <<100, 0>>)}
StructureLedgers == SeqsUpTo(StructureRows, MaxLedger)

HierarchyFrames ==
    {DataFrame(LedgerColumns, rows) : rows \in ToleranceLedgers \cup StructureLedgers}
    \cup {DataFrame(LedgerColumns \ {c}, <<>>) : c \in LedgerColumns}

HierIdle ==
    /\ vh_df = DataFrame({}, <<>>)
    /\ vh_result = NotValidated

InitHierarchyCall ==
    /\ vh_df \in HierarchyFrames
    /\ vh_result = NotValidated

ValidateHierarchy ==
    /\ vh_result.st = "pending"
    /\ vh_result' = validate_hierarchy(vh_df)
    /\ UNCHANGED vh_df

(***************************************************************************)
(* One call of validate_balance_sheet.  Three families of ledgers, one per *)
(* check: the rows the check reads, each present or absent, with balances  *)
(* around 1.00; the first family also carries rows no check should read.   *)
(***************************************************************************)
SheetCents == {s * (100 + k) : s \in {-1, 1}, k \in 0..MaxGap}
SheetRow(codigo) == OptionalRow(codigo, Leaf, SheetCents)
NoiseRows ==
    {<<>>,
     <<LedgerRow(T_5, Macro, <<7, 0>>)>>,
     <<LedgerRow(T_1_01_01, Leaf, <<7, 0>>)>>,
     <<LedgerRow(T_1, Macro, <<7, 0>>)>>}

AtivoLedgers ==
    {a \o b \o c \o n :
        a \in SheetRow(T_1), b \in SheetRow(T_1_01), c \in SheetRow(T_1_02),
        n \in NoiseRows}
PassivoLedgers ==
    {a \o b \o c \o d :
        a \in SheetRow(T_2), b \in SheetRow(T_2_01), c \in SheetRow(T_2_02),
        d \in SheetRow(T_2_03)}
EquilibrioLedgers ==
    {a \o b \o c \o d :
        a \in SheetRow(T_1), b \in SheetRow(T_2), c \in SheetRow(T_3),
        d \in SheetRow(T_4)}

SheetFrames ==
    {DataFrame(LedgerColumns, rows) :
        rows \in AtivoLedgers \cup PassivoLedgers \cup EquilibrioLedgers}
    \cup {DataFrame(LedgerColumns \ {c}, <<>>) : c \in {"codigo_conta", "saldo_atual", "tipo"}}

SheetIdle ==
    /\ bs_df = DataFrame({}, <<>>)
    /\ bs_result = NotValidated

InitSheetCall ==
    /\ bs_df \in SheetFrames
    /\ bs_result = NotValidated

ValidateBalanceSheet ==
    /\ bs_result.st = "pending"
    /\ bs_result' = validate_balance_sheet(bs_df)
    /\ UNCHANGED bs_df


(***************************************************************************)
(* validate_level_classification, and one call of it on the structure      *)
(* ledgers.                                                                *)
(***************************************************************************)
\* lines 254-255: the rows whose code starts with this code and a dot
filhos_of(df, codigo) ==
    SelectSeq(df.rows, LAMBDA r : StartsWith(r.codigo_conta, codigo \o <<".">>))

\* lines 257-271: the error appended for a row that has such rows
LevelError(df, row) ==
    [conta |-> row.codigo_conta,
     titulo |-> IF "titulo_conta" \in df.columns THEN row.titulo_conta ELSE <<>>,
     tipo_atual |-> Leaf,
     filhos_encontrados |-> Codes(filhos_of(df, row.codigo_conta))]

\* line 248: the rows typed "Ultimo Nivel"
ultimo_nivel_any_tipo(df) == df.rows
ultimo_nivel(df) == SelectSeq(df.rows, LAMBDA r : r.tipo = Leaf)

\* lines 251-271: the loop, appending for the rows with filhos not empty
LevelErrors(df, rows) ==
    [i \in 1..Len(rows) |-> LevelError(df, rows[i])]
Contradicted(df, rows) ==
    SelectSeq(rows, LAMBDA r : filhos_of(df, r.codigo_conta) /= <<>>)

validate_level_classification(df) ==
    IF validate_required_columns(df, {"codigo_conta", "tipo"}) /= {}
    THEN ValidationRaised("ValueError")
    ELSE Validated(LevelErrors(df, Contradicted(df, ultimo_nivel(df))))

LevelFrames ==
    {DataFrame(LedgerColumns, rows) : rows \in StructureLedgers}
    \cup {DataFrame(LedgerColumns \ {c}, <<>>) : c \in {"codigo_conta", "tipo", "nivel"}}

LevelIdle ==
    /\ lc_df = DataFrame({}, <<>>)
    /\ lc_result = NotValidated

InitLevelCall ==
    /\ lc_df \in LevelFrames
    /\ lc_result = NotValidated

ValidateLevelClassification ==
    /\ lc_result.st = "pending"
    /\ lc_result' = validate_level_classification(lc_df)
    /\ UNCHANGED lc_df

(***************************************************************************)
(* The three validators called on one DataFrame: all the ledger's columns, *)
(* all but one, or only those one validator requires, over ledgers that    *)
(* are empty, unbalanced, contradictory or without top-level accounts.     *)
(***************************************************************************)
ColumnSets ==
    {LedgerColumns \ {c} : c \in LedgerColumns}
    \cup {LedgerColumns, {"codigo_conta", "saldo_atual"}, {"codigo_conta", "tipo"}, {}}
ValidatorFrames ==
    {DataFrame(columns, rows) :
        columns \in ColumnSets,
        rows \in {l \in StructureLedgers : Len(l) < MaxLedger}}

InitValidatorsCall ==
    /\ vh_df \in ValidatorFrames
    /\ bs_df = vh_df
    /\ lc_df = vh_df
    /\ vh_result = NotValidated
    /\ bs_result = NotValidated
    /\ lc_result = NotValidated

(***************************************************************************)
(* sheets/sheets_client.py: SheetsClient._call_with_retry.                 *)
(*                                                                         *)
(* The wrapped call is its script: what each invocation of fn gives, 200   *)
(* for a value returned, otherwise the status of the APIError it raises.   *)
(* The value an invocation returns is the number of that invocation.  Time *)
(* is counted in whole seconds and passes only in time.sleep.              *)
(***************************************************************************)
MAX_RETRIES == 5
INITIAL_BACKOFF_S == 2
RATE_LIMIT_WINDOW_S == 60
RATE_LIMIT_MAX_REQUESTS == 60

RetryPending == [st |-> "pending", exc |-> "", status |-> 0, val |-> 0]
RetryReturned(val) == [st |-> "returned", exc |-> "", status |-> 0, val |-> val]
RetryRaised(exc, status) == [st |-> "raised", exc |-> exc, status |-> status, val |-> 0]

\* _enforce_rate_limit, lines 83-85: the timestamps still inside the window
InWindow(now, timestamps) ==
    SelectSeq(timestamps, LAMBDA t : now - t < RATE_LIMIT_WINDOW_S)
\* lines 86-90: the sleep when the window is full
RateWait(now, kept) ==
    IF Len(kept) >= RATE_LIMIT_MAX_REQUESTS
          /\ RATE_LIMIT_WINDOW_S - (now - kept[1]) > 0
    THEN RATE_LIMIT_WINDOW_S - (now - kept[1])
    ELSE 0
\* lines 81-91: the clock after the call, and the timestamps it leaves
NowAfterRateLimit(now, timestamps) == now + RateWait(now, InWindow(now, timestamps))
enforce_rate_limit(now, timestamps) ==
    Append(InWindow(now, timestamps), NowAfterRateLimit(now, timestamps))

\* the statuses an invocation can give
Statuses == {200, 429, 403, 500}
Scripts == [1..MAX_RETRIES + 1 -> Statuses]
\* the requests made before the call: none, a window one short of full, a
\* full window
EarlierRequests ==
    {<<>>, [i \in 1..RATE_LIMIT_MAX_REQUESTS - 1 |-> 0],
     [i \in 1..RATE_LIMIT_MAX_REQUESTS |-> 0]}

RetryIdle ==
    /\ rt_script = <<>>
    /\ rt_attempt = 0
    /\ rt_backoff = 0
    /\ rt_calls = 0
    /\ rt_sleeps = <<>>
    /\ rt_now = 0
    /\ rt_timestamps = <<>>
    /\ rt_result = RetryPending

\* lines 98-99: backoff and the first attempt
InitRetryCall ==
    /\ rt_script \in Scripts
    /\ rt_attempt = 1
    /\ rt_backoff = INITIAL_BACKOFF_S
    /\ rt_calls = 0
    /\ rt_sleeps = <<>>
    /\ rt_now \in {0, 30, 60}
    /\ rt_timestamps \in EarlierRequests
    /\ rt_result = RetryPending

\* lines 99-118: one iteration of the loop
last_attempt_retries(attempt) == FALSE
last_attempt(attempt) == attempt = MAX_RETRIES
Attempt ==
    /\ rt_result.st = "pending"
    /\ rt_attempt <= MAX_RETRIES
    /\ rt_timestamps' = enforce_rate_limit(rt_now, rt_timestamps)
    /\ rt_calls' = rt_calls + 1
    /\ UNCHANGED rt_script
    /\ IF rt_script[rt_calls + 1] = 200
       THEN /\ rt_result' = RetryReturned(rt_calls + 1)
            /\ rt_now' = NowAfterRateLimit(rt_now, rt_timestamps)
            /\ UNCHANGED <<rt_attempt, rt_backoff, rt_sleeps>>
       ELSE IF rt_script[rt_calls + 1] = 429
       THEN IF last_attempt(rt_attempt)
            THEN /\ rt_result' = RetryRaised("QuotaExceededError", 429)
                 /\ rt_now' = NowAfterRateLimit(rt_now, rt_timestamps)
                 /\ UNCHANGED <<rt_attempt, rt_backoff, rt_sleeps>>
            ELSE /\ rt_sleeps' = Append(rt_sleeps, rt_backoff)
                 /\ rt_now' = NowAfterRateLimit(rt_now, rt_timestamps) + rt_backoff
                 /\ rt_backoff' = rt_backoff * 2
                 /\ rt_attempt' = rt_attempt + 1
                 /\ UNCHANGED rt_result
       ELSE /\ rt_result' = RetryRaised("APIError", rt_script[rt_calls + 1])
            /\ rt_now' = NowAfterRateLimit(rt_now, rt_timestamps)
            /\ UNCHANGED <<rt_attempt, rt_backoff, rt_sleeps>>

(***************************************************************************)
(* sheets/base_writer.py: BaseWriter.write_month on the "Base Balancete"   *)
(* sheet.                                                                  *)
(*                                                                         *)
(* bw_store is the sheet's data rows, in order: append_rows puts the rows  *)
(* it is given below the header and read_sheet gives them back cell by     *)
(* cell, as the mocked client of test_base_writer.py does.  bw_written     *)
(* records, for each period, the rows last handed over for it.             *)
(***************************************************************************)
\* the characters of codes and periods, in code-point order
OrdChars == <<"-", ".", "0", "1", "2", "3", "4", "5", "6", "7", "8", "9">>
RECURSIVE StrLess(_, _)
StrLess(a, b) ==
    IF b = <<>> THEN FALSE
    ELSE IF a = <<>> THEN TRUE
    ELSE IF Head(a) = Head(b) THEN StrLess(Tail(a), Tail(b))
    ELSE IndexOf(Head(a), OrdChars) < IndexOf(Head(b), OrdChars)

\* sort_values(["periodo", "codigo_conta"]): ascending, equal keys keep
\* their order
KeyLess(r, s) ==
    \/ StrLess(r.periodo, s.periodo)
    \/ r.periodo = s.periodo /\ StrLess(r.codigo_conta, s.codigo_conta)
RECURSIVE InsertSorted(_, _)
InsertSorted(sorted, r) ==
    IF sorted = <<>> THEN <<r>>
    ELSE IF KeyLess(r, Head(sorted)) THEN <<r>> \o sorted
    ELSE <<Head(sorted)>> \o InsertSorted(Tail(sorted), r)
RECURSIVE SortFrom(_, _)
SortFrom(sorted, rows) ==
    IF rows = <<>> THEN sorted
    ELSE SortFrom(InsertSorted(sorted, Head(rows)), Tail(rows))
sort_values(rows) == SortFrom(<<>>, rows)

\* a row of the parser's DataFrame; indicador_dc is "D", "C" or None
IndicadorNone == "<None>"
ParsedRow(codigo, tipo, saldo, indicador, periodo) ==
    [codigo_conta |-> codigo, titulo_conta |-> <<"T">>,
     nivel |-> determine_account_level(codigo), tipo |-> tipo,
     grupo |-> GroupOf(Head(codigo)).grupo, periodo |-> periodo,
     saldo_atual |-> saldo, indicador_dc |-> indicador]

\* _prepare_df, lines 88-104: one row in the sheet's columns
PreparedRow(r) ==
    [codigo_conta |-> r.codigo_conta, titulo_conta |-> r.titulo_conta,
     nivel |-> r.nivel, tipo |-> r.tipo, grupo |-> r.grupo,
     periodo |-> r.periodo, saldo_original |-> Abs(r.saldo_atual),
     indicador_dc |-> r.indicador_dc, saldo_sinalizado |-> r.saldo_atual,
     classificacao_depara |-> ""]
\* lines 88-111
prepare_df(df) == sort_values([i \in 1..Len(df) |-> PreparedRow(df[i])])

\* _df_to_rows, lines 59-75: str(), int() and float() of the cells
StrCell(x) == IF x = IndicadorNone THEN "None" ELSE x
SheetRowOf(r) == [r EXCEPT !.indicador_dc = StrCell(r.indicador_dc)]
df_to_rows(rows) == [i \in 1..Len(rows) |-> SheetRowOf(rows[i])]

\* _rewrite_all, lines 120-130: clear, sort, append
rewrite_all(combined) == df_to_rows(sort_values(combined))

\* write_month, lines 153-156: the stored rows of other periods
without_period_keep_all(existing, periodo) == existing
without_period(existing, periodo) ==
    SelectSeq(existing, LAMBDA r : r.periodo /= periodo)
\* lines 152-156: whether the period was stored
period_stored(existing, periodo) ==
    \E i \in 1..Len(existing) : existing[i].periodo = periodo

\* lines 171-175
WriteResult(rows_written, replaced, periodo) ==
    [rows_written |-> rows_written, replaced |-> replaced, periodo |-> periodo]
NoWrite == WriteResult(0, FALSE, <<>>)

\* the periods written and the DataFrames the parser hands over: one to
\* MaxFrame rows of one period, in file order
Periods == {YearMonth([d |-> 1, mo |-> m, y |-> 2025]) : m \in {1, 2}}
FrameRows(periodo) ==
    {ParsedRow(T_1, Macro, <<100, 0>>, "D", periodo),
     ParsedRow(T_1_01, Leaf, <<100, 0>>, IndicadorNone, periodo),
     ParsedRow(T_2, Leaf, <<-50, 0>>, "C", periodo)}
Frames(periodo) == SeqsUpTo(FrameRows(periodo), MaxFrame) \ {<<>>}

WriterInit ==
    /\ bw_store = <<>>
    /\ bw_written = [p \in Periods |-> <<>>]
    /\ bw_calls = 0
    /\ bw_result = NoWrite

\* write_month, lines 147-175
WriteMonth ==
    /\ bw_calls < MaxWrites
    /\ \E periodo \in Periods : \E df \in Frames(periodo) :
          /\ bw_store' = rewrite_all(without_period(bw_store, periodo) \o prepare_df(df))
          /\ bw_result' = WriteResult(Len(prepare_df(df)),
                                      period_stored(bw_store, periodo), periodo)
          /\ bw_written' = [bw_written EXCEPT ![periodo] = df]
    /\ bw_calls' = bw_calls + 1

(***************************************************************************)
(* classifier/depara_manager.py: DEPARAManager.classify_accounts.          *)
(*                                                                         *)
(* cl_sheet is the DEPARA sheet behind the client: whether its calls work, *)
(* and its data rows (code, classification, grupo_df).  The mapping tables *)
(* are a slice of default_mapping.py: the keys the explored codes can hit. *)
(***************************************************************************)
\* str.split(".") and ".".join(parts)
RECURSIVE SplitDots(_, _)
SplitDots(s, part) ==
    IF s = <<>> THEN <<part>>
    ELSE IF Head(s) = "." THEN <<part>> \o SplitDots(Tail(s), <<>>)
    ELSE SplitDots(Tail(s), Append(part, Head(s)))
RECURSIVE JoinDots(_)
JoinDots(parts) ==
    IF Len(parts) = 0 THEN <<>>
    ELSE IF Len(parts) = 1 THEN parts[1]
    ELSE parts[1] \o <<".">> \o JoinDots(Tail(parts))

\* _get_level4_prefix, lines 428-434
Level4Of(codigo, parts) ==
    IF Len(parts) >= 4 THEN JoinDots(SubSeq(parts, 1, 4)) ELSE codigo
get_level4_prefix(codigo) ==
    IF codigo = <<>> THEN <<>> ELSE Level4Of(codigo, SplitDots(codigo, <<>>))

\* account codes of the explored ledgers
AccountCode(segments) == JoinDots([i \in 1..Len(segments) |-> PadDigits(segments[i][1], segments[i][2])])
K_Deducoes == AccountCode(<<<<3, 1>>, <<1, 2>>, <<1, 2>>, <<2, 2>>>>)
K_Pis == AccountCode(<<<<3, 1>>, <<1, 2>>, <<1, 2>>, <<2, 2>>, <<4, 5>>>>)
K_Deducao1 == AccountCode(<<<<3, 1>>, <<1, 2>>, <<1, 2>>, <<2, 2>>, <<1, 5>>>>)
K_Csll == AccountCode(<<<<4, 1>>, <<98, 2>>, <<3, 2>>>>)
K_Csll1 == AccountCode(<<<<4, 1>>, <<98, 2>>, <<3, 2>>, <<1, 2>>>>)
K_Unmapped == AccountCode(<<<<4, 1>>, <<99, 2>>>>)

\* default_mapping.py, lines 22-82, 89-94 and 101-150 (labels written
\* without their accents)
DEFAULT_MAPPING ==
    (K_Deducoes :> "(-) Deducoes da Receita") @@ (K_Csll :> "(-) CSLL")
SPECIFIC_ACCOUNT_MAPPING == (K_Pis :> "(-) PIS")
CLASSIFICATION_TO_DF(classificacao) ==
    IF classificacao \in {"(-) Deducoes da Receita", "(-) CSLL", "(-) PIS", "(-) ISS"}
    THEN "DRE" ELSE ""

\* lines 127-136: the lookup built from the sheet's rows; a later row of a
\* code replaces an earlier one, rows without a code are left out
DeparaEntry(codigo, classificacao, grupo_df) ==
    [codigo_conta |-> codigo, classificacao |-> classificacao, grupo_df |-> grupo_df]
RECURSIVE DeparaMapFrom(_, _)
DeparaMapFrom(map, rows) ==
    IF rows = <<>> THEN map
    ELSE IF Strip(Head(rows).codigo_conta) = <<>> THEN DeparaMapFrom(map, Tail(rows))
    ELSE DeparaMapFrom(
            [c \in DOMAIN map \cup {Strip(Head(rows).codigo_conta)} |->
                IF c = Strip(Head(rows).codigo_conta) THEN Head(rows) ELSE map[c]],
            Tail(rows))
\* lines 125-142: the lookup is empty when the sheet cannot be read
depara_map(sheet) == IF sheet.ok THEN DeparaMapFrom(<<>>, sheet.rows) ELSE <<>>

\* lines 153-212: the classification of one "Ultimo Nivel" row, and where
\* it came from
Classified(classificacao, grupo_df, por) ==
    [classificacao |-> classificacao, grupo_df |-> grupo_df, por |-> por]
ByDefault(prefix) ==
    IF prefix /= <<>> /\ prefix \in DOMAIN DEFAULT_MAPPING
    THEN Classified(DEFAULT_MAPPING[prefix], CLASSIFICATION_TO_DF(DEFAULT_MAPPING[prefix]), "default")
    ELSE Classified("Pendente IA", "", "pendente")
BySpecific_default_first(codigo) == ByDefault(get_level4_prefix(codigo))
BySpecific(codigo) ==
    IF codigo \in DOMAIN SPECIFIC_ACCOUNT_MAPPING
    THEN Classified(SPECIFIC_ACCOUNT_MAPPING[codigo],
                    CLASSIFICATION_TO_DF(SPECIFIC_ACCOUNT_MAPPING[codigo]), "specific")
    ELSE ByDefault(get_level4_prefix(codigo))
ClassifyCode(codigo, map) ==
    IF codigo \in DOMAIN map /\ map[codigo].classificacao /= ""
    THEN Classified(map[codigo].classificacao, map[codigo].grupo_df, "depara")
    ELSE BySpecific(codigo)

\* lines 117-122, 145-212: the row with its two new columns
ClassifiedRow(row, map) ==
    IF row.tipo = Leaf
    THEN [codigo_conta |-> row.codigo_conta, tipo |-> row.tipo,
          classificacao_depara |-> ClassifyCode(Strip(row.codigo_conta), map).classificacao,
          grupo_df |-> ClassifyCode(Strip(row.codigo_conta), map).grupo_df]
    ELSE [codigo_conta |-> row.codigo_conta, tipo |-> row.tipo,
          classificacao_depara |-> "", grupo_df |-> ""]

\* lines 160-212: the accounts to persist, those not taken from the sheet
NewAccountsOf(rows, map) ==
    SelectSeq(rows, LAMBDA r : r.tipo = Leaf
                    /\ ClassifyCode(Strip(r.codigo_conta), map).por /= "depara")
NewAccountRows(rows, map) ==
    [i \in 1..Len(rows) |->
        DeparaEntry(Strip(rows[i].codigo_conta),
                    ClassifyCode(Strip(rows[i].codigo_conta), map).classificacao,
                    ClassifyCode(Strip(rows[i].codigo_conta), map).grupo_df)]

\* classify_accounts, lines 96-240
classify_accounts(df, sheet) ==
    IF {"codigo_conta", "titulo_conta", "tipo"} \ df.columns /= {}
    THEN ValidationRaised("ValueError")
    ELSE Validated([i \in 1..Len(df.rows) |-> ClassifiedRow(df.rows[i], depara_map(sheet))])
\* add_new_accounts, lines 214-222 and 257-281: appended unless the sheet
\* fails
sheet_after(df, sheet) ==
    IF {"codigo_conta", "titulo_conta", "tipo"} \ df.columns /= {} \/ ~sheet.ok
    THEN sheet
    ELSE [sheet EXCEPT !.rows =
            @ \o NewAccountRows(NewAccountsOf(df.rows, depara_map(sheet)), depara_map(sheet))]

\* the explored DataFrames: up to MaxFrame rows, "Ultimo Nivel" or Macro
AccountCodes == {K_Deducoes, K_Pis, K_Deducao1, K_Csll, K_Csll1, K_Unmapped}
AccountRows ==
    {LedgerRow(c, Leaf, <<1, 0>>) : c \in AccountCodes}
    \cup {LedgerRow(c, Macro, <<1, 0>>) : c \in {K_Deducoes, K_Pis}}
AccountFrames ==
    {DataFrame(LedgerColumns, rows) : rows \in SeqsUpTo(AccountRows, MaxFrame)}
    \cup {DataFrame(LedgerColumns \ {"titulo_conta"}, <<>>)}
\* the explored sheets: unreadable, or one row or none for each of three
\* codes, with a classification or a blank one
DeparaRow(codigo) ==
    {<<>>, <<DeparaEntry(codigo, "", "")>>, <<DeparaEntry(codigo, "(-) ISS", "DRE")>>}
DeparaSheets ==
    {[ok |-> TRUE, rows |-> a \o b \o c] :
        a \in DeparaRow(K_Pis), b \in DeparaRow(K_Deducao1), c \in DeparaRow(K_Unmapped)}
    \cup {[ok |-> FALSE, rows |-> <<DeparaEntry(K_Pis, "(-) ISS", "DRE")>>]}

DeparaIdle ==
    /\ cl_df = DataFrame({}, <<>>)
    /\ cl_sheet = [ok |-> FALSE, rows |-> <<>>]
    /\ cl_result = NotValidated

InitClassifyCall ==
    /\ cl_df \in AccountFrames
    /\ cl_sheet \in DeparaSheets
    /\ cl_result = NotValidated

ClassifyAccounts ==
    /\ cl_result.st = "pending"
    /\ cl_result' = classify_accounts(cl_df, cl_sheet)
    /\ cl_sheet' = sheet_after(cl_df, cl_sheet)
    /\ UNCHANGED cl_df

(***************************************************************************)
(* routers/upload.py: upload_file, from the parsed ledger to the response. *)
(*                                                                         *)
(* The steps between the validations and the response (classification,     *)
(* writing the sheets, building the statements) appear only as finishing   *)
(* or raising; their own warnings are left out of the lists.               *)
(***************************************************************************)
\* dict.get(key): None for a key the dict does not have
dict_get(d, key) == IF key \in DOMAIN d THEN d[key] ELSE "None"

\* lines 108-121, 130-133: one message for each finding
WithStatus(findings, status) == SelectSeq(findings, LAMBDA r : r.status = status)
Messages(label, items) == [i \in 1..Len(items) |-> label]

\* lines 123-127: the message of the balance validation
balance_errors(balance_result) ==
    IF dict_get(balance_result, "status") = "ERROR" THEN <<"Balanco">> ELSE <<>>
balance_warnings(balance_result) ==
    IF dict_get(balance_result, "status") /= "ERROR"
       /\ dict_get(balance_result, "status") = "WARNING"
    THEN <<"Balanco">> ELSE <<>>

\* lines 230-235
final_validations(hierarchy_results, balance_result) ==
    [hierarchy_errors   |-> Len(WithStatus(hierarchy_results, "ERROR")),
     hierarchy_warnings |-> Len(WithStatus(hierarchy_results, "WARNING")),
     balance_ok         |-> dict_get(balance_result, "status") /= "ERROR"]

\* lines 238-249 and 269-271: the response, or HTTP 500 for any exception
HttpError ==
    [http |-> "500", status |-> "", errors |-> <<>>, warnings |-> <<>>,
     validations |-> [hierarchy_errors |-> 0, hierarchy_warnings |-> 0, balance_ok |-> FALSE]]
NoResponse == [HttpError EXCEPT !.http = ""]
Response(errors, warnings, validations) ==
    [http |-> "200", status |-> IF errors /= <<>> THEN "error" ELSE "success",
     errors |-> errors, warnings |-> warnings, validations |-> validations]

\* lines 105-133 and 229-249
Validations(hierarchy_results, balance_result, level_errors) ==
    Response(Messages("Hierarquia", WithStatus(hierarchy_results, "ERROR"))
                \o balance_errors(balance_result),
             Messages("Hierarquia", WithStatus(hierarchy_results, "WARNING"))
                \o balance_warnings(balance_result)
                \o Messages("Classificacao nivel", level_errors),
             final_validations(hierarchy_results, balance_result))
upload_file(df, later_steps_ok) ==
    IF validate_hierarchy(df).st = "raised" \/ validate_balance_sheet(df).st = "raised"
       \/ validate_level_classification(df).st = "raised" \/ ~later_steps_ok
    THEN HttpError
    ELSE Validations(validate_hierarchy(df).val, validate_balance_sheet(df).val,
                     validate_level_classification(df).val)

UploadIdle ==
    /\ up_df = DataFrame({}, <<>>)
    /\ up_response = NoResponse

InitUploadCall ==
    /\ up_df \in SheetFrames
    /\ up_response = NoResponse

UploadFile ==
    /\ up_response.http = ""
    /\ \E later_steps_ok \in BOOLEAN : up_response' = upload_file(up_df, later_steps_ok)
    /\ UNCHANGED up_df

(***************************************************************************)
(* Specifications.                                                         *)
(***************************************************************************)
\* parse_balancete
Init == InitParseCall /\ SignIdle /\ ValueIdle /\ HierIdle /\ SheetIdle /\ LevelIdle /\ RetryIdle /\ WriterInit /\ DeparaIdle /\ UploadIdle
Next ==
    \/ ExtractHeader /\ UNCHANGED <<sign_vars, value_vars, hier_vars, sheet_vars, level_vars, retry_vars, writer_vars, depara_vars, upload_vars>>
    \/ ReadDataRows /\ UNCHANGED <<sign_vars, value_vars, hier_vars, sheet_vars, level_vars, retry_vars, writer_vars, depara_vars, upload_vars>>
    \/ ParseDataRows /\ UNCHANGED <<sign_vars, value_vars, hier_vars, sheet_vars, level_vars, retry_vars, writer_vars, depara_vars, upload_vars>>
    \/ ClassifyAndReturn /\ UNCHANGED <<sign_vars, value_vars, hier_vars, sheet_vars, level_vars, retry_vars, writer_vars, depara_vars, upload_vars>>
Spec == Init /\ [][Next]_vars

\* apply_sign
InitSign == InitSignCall /\ ValueIdle /\ ParseIdle /\ HierIdle /\ SheetIdle /\ LevelIdle /\ RetryIdle /\ WriterInit /\ DeparaIdle /\ UploadIdle
NextSign ==
    \/ ApplySign /\ UNCHANGED <<value_vars, parse_vars, hier_vars, sheet_vars, level_vars, retry_vars, writer_vars, depara_vars, upload_vars>>
SpecSign == InitSign /\ [][NextSign]_vars

\* parse_brazilian_value
InitValue == InitValueCall /\ SignIdle /\ ParseIdle /\ HierIdle /\ SheetIdle /\ LevelIdle /\ RetryIdle /\ WriterInit /\ DeparaIdle /\ UploadIdle
NextValue ==
    \/ ParseValue /\ UNCHANGED <<sign_vars, parse_vars, hier_vars, sheet_vars, level_vars, retry_vars, writer_vars, depara_vars, upload_vars>>
SpecValue == InitValue /\ [][NextValue]_vars

\* validate_hierarchy
InitHierarchy == InitHierarchyCall /\ SignIdle /\ ValueIdle /\ ParseIdle /\ SheetIdle /\ LevelIdle /\ RetryIdle /\ WriterInit /\ DeparaIdle /\ UploadIdle
NextHierarchy ==
    \/ ValidateHierarchy /\ UNCHANGED <<sign_vars, value_vars, parse_vars, sheet_vars, level_vars, retry_vars, writer_vars, depara_vars, upload_vars>>
SpecHierarchy == InitHierarchy /\ [][NextHierarchy]_vars

\* validate_balance_sheet
InitSheet == InitSheetCall /\ SignIdle /\ ValueIdle /\ ParseIdle /\ HierIdle /\ LevelIdle /\ RetryIdle /\ WriterInit /\ DeparaIdle /\ UploadIdle
NextSheet ==
    \/ ValidateBalanceSheet /\ UNCHANGED <<sign_vars, value_vars, parse_vars, hier_vars, level_vars, retry_vars, writer_vars, depara_vars, upload_vars>>
SpecSheet == InitSheet /\ [][NextSheet]_vars

\* validate_level_classification
InitLevel == InitLevelCall /\ SignIdle /\ ValueIdle /\ ParseIdle /\ HierIdle /\ SheetIdle /\ RetryIdle /\ WriterInit /\ DeparaIdle /\ UploadIdle
NextLevel ==
    \/ ValidateLevelClassification /\ UNCHANGED <<sign_vars, value_vars, parse_vars, hier_vars, sheet_vars, retry_vars, writer_vars, depara_vars, upload_vars>>
SpecLevel == InitLevel /\ [][NextLevel]_vars

\* the three validators on one DataFrame
InitValidators == InitValidatorsCall /\ SignIdle /\ ValueIdle /\ ParseIdle /\ RetryIdle /\ WriterInit /\ DeparaIdle /\ UploadIdle
NextValidators ==
    \/ ValidateHierarchy /\ UNCHANGED <<sign_vars, value_vars, parse_vars, sheet_vars, level_vars, retry_vars, writer_vars, depara_vars, upload_vars>>
    \/ ValidateBalanceSheet /\ UNCHANGED <<sign_vars, value_vars, parse_vars, hier_vars, level_vars, retry_vars, writer_vars, depara_vars, upload_vars>>
    \/ ValidateLevelClassification /\ UNCHANGED <<sign_vars, value_vars, parse_vars, hier_vars, sheet_vars, retry_vars, writer_vars, depara_vars, upload_vars>>
SpecValidators == InitValidators /\ [][NextValidators]_vars

\* _call_with_retry
InitRetry == InitRetryCall /\ SignIdle /\ ValueIdle /\ ParseIdle /\ HierIdle /\ SheetIdle /\ LevelIdle /\ WriterInit /\ DeparaIdle /\ UploadIdle
NextRetry ==
    \/ Attempt /\ UNCHANGED <<sign_vars, value_vars, parse_vars, hier_vars, sheet_vars, level_vars, writer_vars, depara_vars, upload_vars>>
SpecRetry == InitRetry /\ [][NextRetry]_vars
\* the loop runs on: no iteration waits for anything but its own sleep
SpecRetryFair == SpecRetry /\ WF_vars(NextRetry)

\* write_month
InitWriter == WriterInit /\ SignIdle /\ ValueIdle /\ ParseIdle /\ HierIdle /\ SheetIdle /\ LevelIdle /\ RetryIdle /\ DeparaIdle /\ UploadIdle
NextWriter ==
    \/ WriteMonth /\ UNCHANGED <<sign_vars, value_vars, parse_vars, hier_vars, sheet_vars, level_vars, retry_vars, depara_vars, upload_vars>>
SpecWriter == InitWriter /\ [][NextWriter]_vars

\* classify_accounts
InitClassify == InitClassifyCall /\ SignIdle /\ ValueIdle /\ ParseIdle /\ HierIdle /\ SheetIdle /\ LevelIdle /\ RetryIdle /\ WriterInit /\ UploadIdle
NextClassify ==
    \/ ClassifyAccounts /\ UNCHANGED <<sign_vars, value_vars, parse_vars, hier_vars, sheet_vars, level_vars, retry_vars, writer_vars, upload_vars>>
SpecClassify == InitClassify /\ [][NextClassify]_vars

\* upload_file
InitUpload == InitUploadCall /\ SignIdle /\ ValueIdle /\ ParseIdle /\ HierIdle /\ SheetIdle /\ LevelIdle /\ RetryIdle /\ WriterInit /\ DeparaIdle
NextUpload ==
    \/ UploadFile /\ UNCHANGED <<sign_vars, value_vars, parse_vars, hier_vars, sheet_vars, level_vars, retry_vars, writer_vars, depara_vars>>
SpecUpload == InitUpload /\ [][NextUpload]_vars

(***************************************************************************)
(* Properties of apply_sign (SpecSign).                                    *)
(***************************************************************************)
SignReturned == as_result.st /= "pending"

\* C6: for each of the groups 1..4 and every magnitude >= 0, apply_sign
\* returns +magnitude for "D", -magnitude for "C" and 0 for ""; the value
\* expected does not mention the group.
C6_ApplySignUniform ==
    (SignReturned /\ as_group \in {1, 2, 3, 4} /\ as_value[1] >= 0
        /\ as_indicator \in {<<"D">>, <<"C">>, <<>>})
    => /\ as_result.st = "returned"
       /\ as_result.val = (CASE as_indicator = <<"D">> -> as_value
                             [] as_indicator = <<"C">> -> <<-as_value[1], as_value[2]>>
                             [] OTHER -> <<0, 0>>)

C6_Witness ==
    /\ SignReturned
    /\ as_group = 2 /\ as_indicator = <<"C">> /\ as_value = <<3, 0>>
    /\ as_result.val = <<-3, 0>>

\* C7: apply_sign raises the invalid-group error for every group number
\* outside 1..4, whatever the indicator (the empty one included).
C7_InvalidGroupAlwaysRaises ==
    (SignReturned /\ as_group \notin {1, 2, 3, 4}) => as_result.st = "raised"

(***************************************************************************)
(* Properties of parse_brazilian_value (SpecValue).                        *)
(***************************************************************************)
ValueParsed == pv_result.st /= "pending"

\* The text left of a string: its ends stripped, one trailing D or C cut
\* off, '.' dropped, ',' turned into '.', and only digits, '.' and '-' kept.
TrailingIndicator(text) ==
    IF text /= <<>> /\ text[Len(text)] \in {"D", "d"} THEN <<"D">>
    ELSE IF text /= <<>> /\ text[Len(text)] \in {"C", "c"} THEN <<"C">>
    ELSE <<>>
RemainderChars(text) ==
    [i \in 1..Len(text) |->
        IF text[i] = "," THEN <<".">>
        ELSE IF IsDigit(text[i]) \/ text[i] = "-" THEN <<text[i]>>
        ELSE <<>>]
RECURSIVE Flatten(_)
Flatten(ss) == IF ss = <<>> THEN <<>> ELSE Head(ss) \o Flatten(Tail(ss))
Remainder(text) ==
    Flatten(RemainderChars(IF TrailingIndicator(text) = <<>> THEN text
                           ELSE DropLast(text)))

\* what the claim says of a string: (0, "") when the remainder is empty or
\* no number, else the number with the indicator
ExpectedOfText(text) ==
    IF Remainder(text) = <<>> \/ PyFloat(Remainder(text)).exc /= ""
    THEN Returned(Zero, <<>>)
    ELSE Returned(PyFloat(Remainder(text)).val, TrailingIndicator(text))

C9_RoundTrip ==
    (ValueParsed /\ pv_src /= NoSrc)
    => pv_result = Returned(Norm(pv_src.m, 2), <<UpperChar(pv_src.i)>>)

C9_Witness ==
    /\ ValueParsed
    /\ pv_src = [m |-> 123456789, i |-> "d"]
    /\ pv_input = Str(<<"1", ".", "2", "3", "4", ".", "5", "6", "7", ",", "8", "9", "d">>)
    /\ pv_result = Returned(<<123456789, 2>>, <<"D">>)

(***************************************************************************)
(* Properties of parse_balancete (Spec).  They are stated on the file:     *)
(* the text of a cell, the first "total geral" row, and the rows retained  *)
(* before it.                                                              *)
(***************************************************************************)
Returns == pc = "done" /\ result.st = "returned"
Fails == pc = "done" /\ result.st = "raised"

\* the text of a cell: nothing for an absent cell, else its text stripped
CellText(c) ==
    CASE c.t = "none" -> <<>>
      [] c.t = "str"  -> Strip(c.s)
      [] OTHER        -> PyStr(c)

HasTotalGeral(text) ==
    \E i \in 1..Len(text) :
        /\ i + 10 <= Len(text)
        /\ \A k \in 1..11 : LowerChar(text[i + k - 1]) = TotalGeral[k]

\* index of the first sentinel row (one past the end when there is none)
FirstSentinel(rows) ==
    IF \E i \in 1..Len(rows) : HasTotalGeral(CellText(rows[i][1]))
    THEN CHOOSE i \in 1..Len(rows) :
            /\ HasTotalGeral(CellText(rows[i][1]))
            /\ \A j \in 1..(i - 1) : ~HasTotalGeral(CellText(rows[j][1]))
    ELSE Len(rows) + 1

RetainedIdx(rows) ==
    {i \in 1..(FirstSentinel(rows) - 1) : CellText(rows[i][1]) /= <<>>}

\* the k-th smallest element of a set of numbers
KthOf(S, k) == CHOOSE x \in S : Cardinality({y \in S : y < x}) = k - 1

\* the retained rows of the file, in file order
Retained(f) ==
    [k \in 1..Cardinality(RetainedIdx(f.rows)) |->
        f.rows[KthOf(RetainedIdx(f.rows), k)]]

Segments(code) == Cardinality({i \in 1..Len(code) : code[i] = "."}) + 1

CodeOf(row) == CellText(row[1])
Mappable(code) == code /= <<>> /\ code[1] \in {"1", "2", "3", "4", "5"}

\* C1: each emitted row is Macro exactly when the next retained row has more
\* dot-separated segments, Leaf otherwise; the last one is Leaf; skipped rows
\* are not the "next" row.
C1_MacroIffNextDeeper ==
    Returns =>
        /\ Len(result.df) = Len(Retained(file))
        /\ \A i \in 1..Len(result.df) :
              result.df[i].tipo =
                 IF i < Len(result.df)
                    /\ Segments(CodeOf(Retained(file)[i + 1]))
                         > Segments(CodeOf(Retained(file)[i]))
                 THEN Macro ELSE Leaf

\* "1", a row without code, "1.01": the first is Macro, the last Leaf
C1_Witness ==
    /\ Returns
    /\ Len(file.rows) = 3 /\ CodeOf(file.rows[2]) = <<>>
    /\ Len(result.df) = 2
    /\ result.df[1].tipo = Macro /\ result.df[2].tipo = Leaf

\* C2: the ledger is the rows before the first "total geral" row that have a
\* code, in file order.
C2_LedgerIsRowsBeforeTotal ==
    Returns =>
        /\ Len(result.df) = Len(Retained(file))
        /\ \A i \in 1..Len(result.df) :
              result.df[i].codigo_conta = CodeOf(Retained(file)[i])

\* "1", "Total Geral", "2": only "1" is emitted
C2_Witness ==
    /\ Returns
    /\ Len(file.rows) = 3
    /\ HasTotalGeral(CodeOf(file.rows[2]))
    /\ CodeOf(file.rows[3]) = <<"2">>
    /\ Len(result.df) = 1 /\ result.df[1].codigo_conta = <<"1">>

\* C3: with a well-formed preamble, a retained row whose code does not start
\* with 1..5 makes the parse fail with the unknown-account-group error, with
\* no header and no ledger, whatever rows precede or follow it.
C3_UnknownGroupFailsParse ==
    (pc = "done" /\ header /= NoHeader
        /\ \E i \in 1..Len(Retained(file)) : ~Mappable(CodeOf(Retained(file)[i])))
    => /\ result.st = "raised"
       /\ result.exc.what = "unknown_group"
       /\ result.header = NoHeader /\ result.df = <<>>

\* C4: level is the number of dot-separated segments of the code (>= 1) and
\* the group is that of the code's first character.
C4_DerivedFromCode ==
    Returns =>
        \A i \in 1..Len(result.df) :
            LET r == result.df[i]
            IN  /\ r.nivel = Segments(r.codigo_conta)
                /\ r.nivel >= 1
                /\ <<r.grupo, r.grupo_num>> =
                      (CASE r.codigo_conta[1] = "1" -> <<"ATIVO", 1>>
                         [] r.codigo_conta[1] = "2" -> <<"PASSIVO", 2>>
                         [] r.codigo_conta[1] = "3" -> <<"RECEITA", 3>>
                         [] r.codigo_conta[1] \in {"4", "5"} -> <<"DESPESA", 4>>
                         [] OTHER -> <<"", 0>>)

C4_Witness ==
    /\ Returns
    /\ \E i \in 1..Len(result.df) :
          /\ result.df[i].codigo_conta = <<"5", ".", "1">>
          /\ result.df[i].nivel = 2
          /\ result.df[i].grupo = "DESPESA" /\ result.df[i].grupo_num = 4

\* the sign rule of one balance under its indicator
SignRule(balance, indicator) ==
    /\ indicator \in {<<"D">>, <<"C">>, <<>>}
    /\ indicator = <<"D">> => balance[1] >= 0
    /\ indicator = <<"C">> => balance[1] <= 0
    /\ indicator = <<>> => balance = <<0, 0>>

\* C5: debits and credits are >= 0; the current balance is >= 0 under "D",
\* <= 0 under "C" and 0 under ""; the prior balance likewise under the
\* indicator of its own cell; the group plays no part.
C5_SignsOfLedger ==
    Returns =>
        \A i \in 1..Len(result.df) :
            /\ result.df[i].debitos[1] >= 0
            /\ result.df[i].creditos[1] >= 0
            /\ SignRule(result.df[i].saldo_atual, result.df[i].indicador_dc)
            /\ i <= Len(Retained(file))
            /\ SignRule(result.df[i].saldo_anterior,
                        parse_brazilian_value(
                            Str(AmountText(Retained(file)[i], 3))).ind)

\* a liability with "1,50D" as current and "1,50" (no indicator) as prior
\* balance: +1.5 and 0
C5_Witness ==
    /\ Returns
    /\ Len(result.df) = 1
    /\ result.df[1].grupo_num = 2
    /\ result.df[1].indicador_dc = <<"D">>
    /\ result.df[1].saldo_atual = <<15, 1>>
    /\ file.rows[1][4] = Str(<<"1", ",", "5", "0">>)
    /\ result.df[1].saldo_anterior = <<0, 0>>

\* C10: with a well-formed preamble and only mappable codes retained, no
\* content of the Red cell or of the amount cells makes the parse fail:
\* every retained row is emitted.
C10_MalformedCellsNeverAbort ==
    (pc = "done" /\ header /= NoHeader
        /\ Retained(file) /= <<>>
        /\ \A i \in 1..Len(Retained(file)) : Mappable(CodeOf(Retained(file)[i])))
    => /\ result.st = "returned"
       /\ Len(result.df) = Len(Retained(file))

\* C11: with a well-formed preamble, a file with no retained row (no row
\* with a code before the first "total geral" row) makes the parse fail
\* with the no-data-rows error; no parse returns an empty ledger.
C11_EmptyLedgerFails ==
    /\ (pc = "done" /\ header /= NoHeader /\ Retained(file) = <<>>)
          => (result.st = "raised" /\ result.exc.what = "no_data_rows")
    /\ Returns => result.df /= <<>>

\* the first preamble field at fault, in the order company, period, CNPJ,
\* issue ("" when none): an empty company cell, or a cell that is missing
\* or does not match its pattern
FirstFailingField(f) ==
    IF CellText(f.hdr.empresa) = <<>> THEN "empresa"
    ELSE IF ~(f.ncols > 5 /\ f.hdr.periodo.present /\ f.hdr.periodo.m) THEN "periodo"
    ELSE IF ~(f.hdr.cnpj.present /\ f.hdr.cnpj.m) THEN "cnpj"
    ELSE IF ~(f.ncols > 5 /\ f.hdr.emissao.present /\ f.hdr.emissao.m) THEN "emissao"
    ELSE ""

\* C12: for a readable file with its preamble rows, an empty company cell
\* or a period, CNPJ or issue cell that does not match its pattern makes the
\* parse fail with the error that names the first such field, whatever the
\* data rows hold, and no ledger is returned.
C12_HeaderErrorNamesFirstField ==
    (pc = "done" /\ file.exists /\ file.ext \in {".xls", ".xlsx"}
        /\ file.npre >= 2 /\ FirstFailingField(file) /= "")
    => /\ result.st = "raised"
       /\ result.exc.what = FirstFailingField(file)
       /\ result.df = <<>>

\* C13: in a returned ledger every row carries the header's reference
\* month, which is the year and month of the period's end date.
C13_PeriodIsEndMonth ==
    Returns =>
        /\ result.header.mes_referencia =
              PadDigits(file.hdr.periodo.fim.y, 4) \o <<"-">>
              \o PadDigits(file.hdr.periodo.fim.mo, 2)
        /\ \A i \in 1..Len(result.df) :
              result.df[i].periodo = result.header.mes_referencia

\* a ledger of the period 01/12/2024 - 31/01/2025, issued in 02/2026
C13_Witness ==
    /\ Returns
    /\ file.hdr.periodo.ini = Date(1, 12, 2024)
    /\ file.hdr.emissao.dt = Date(4, 2, 2026)
    /\ Len(result.df) = 1
    /\ result.df[1].periodo = <<"2", "0", "2", "5", "-", "0", "1">>

CentsOf(d) == d[1] * Pow10(2 - d[2])
AbsCents(x) == IF x < 0 THEN -x ELSE x
RECURSIVE SumCents(_)
SumCents(rows) ==
    IF rows = <<>> THEN 0 ELSE CentsOf(Head(rows).saldo_atual) + SumCents(Tail(rows))
MacroRows(df) == SelectSeq(df.rows, LAMBDA r : r.tipo = "Macro")
Under(df, row) ==
    SelectSeq(df.rows, LAMBDA r : StartsWith(r.codigo_conta, row.codigo_conta \o <<".">>))
DirectChildren(df, row) == SelectSeq(Under(df, row), LAMBDA r : r.nivel = row.nivel + 1)
DeeperRows(df, row) == SelectSeq(Under(df, row), LAMBDA r : r.nivel > row.nivel + 1)
LeafRows(df, row) == SelectSeq(Under(df, row), LAMBDA r : r.tipo = "Ultimo Nivel")
DirectGap(df, row) == AbsCents(CentsOf(row.saldo_atual) - SumCents(DirectChildren(df, row)))
LeafGap(df, row) == AbsCents(CentsOf(row.saldo_atual) - SumCents(LeafRows(df, row)))
HierarchyReturned == vh_result.st = "returned"
\* the findings paired with the Macro rows they are about
Findings == 1..(IF HierarchyReturned THEN Len(vh_result.val) ELSE 0)
MacroOf(i) == MacroRows(vh_df)[i]

\* C15: a Macro row's finding has status OK if and only if the parent's
\* balance and the sum of its direct children's balances differ by at most
\* 0.02, the boundary included (a Macro row with no direct children: its own
\* balance is within 0.02 of zero).
C15_OkIffWithinTolerance ==
    \A i \in Findings :
        i <= Len(MacroRows(vh_df)) =>
            (vh_result.val[i].status = "OK" <=> DirectGap(vh_df, MacroOf(i)) <= 2)

\* C16: in each finding the contributing children are exactly the rows whose
\* code starts with the parent's code and a dot and whose level is the
\* parent's plus one, in ledger order (deeper rows, other branches and codes
\* that share only the text before the dot are left out); soma_filhos is the
\* sum of those rows' balances and diferenca is |saldo_pai - soma_filhos|.
C16_DirectChildrenOnly ==
    \A i \in Findings :
        i <= Len(MacroRows(vh_df)) =>
            /\ vh_result.val[i].filhos = Codes(DirectChildren(vh_df, MacroOf(i)))
            /\ vh_result.val[i].soma_filhos = SumCents(DirectChildren(vh_df, MacroOf(i)))
            /\ vh_result.val[i].diferenca = DirectGap(vh_df, MacroOf(i))
\* a parent with a direct child, beside a deeper row under it or a row of
\* code 10.01 that is left out
C16_Witness ==
    /\ HierarchyReturned
    /\ \E i \in Findings :
          /\ vh_result.val[i].conta_pai = T_1
          /\ vh_result.val[i].filhos = <<T_1_01>>
          /\ vh_result.val[i].soma_filhos = 6000
          /\ \E j \in 1..Len(vh_df.rows) :
                vh_df.rows[j].codigo_conta \in {T_1_01_01, T_10_01}

\* C17: a Macro row whose direct children differ from it by more than 0.02,
\* while the Leaf-typed rows under its prefix sum to within 0.02 of its
\* balance, is reported WARNING, never ERROR.
C17_LeafSumReconcilesIsWarning ==
    \A i \in Findings :
        (i <= Len(MacroRows(vh_df))
            /\ DirectGap(vh_df, MacroOf(i)) > 2
            /\ LeafGap(vh_df, MacroOf(i)) <= 2)
        => vh_result.val[i].status = "WARNING"

\* C18: for a Macro row whose direct children differ from it by more than
\* 0.02: if some row under its prefix lies deeper than its direct children the
\* status is WARNING, whether or not the Leaf-typed rows reconcile; if no such
\* row exists and the Leaf-typed rows do not reconcile, the status is ERROR.
C18_DeeperRowsWarnElseError ==
    \A i \in Findings :
        (i <= Len(MacroRows(vh_df)) /\ DirectGap(vh_df, MacroOf(i)) > 2)
        => /\ DeeperRows(vh_df, MacroOf(i)) /= <<>>
                => vh_result.val[i].status = "WARNING"
           /\ (DeeperRows(vh_df, MacroOf(i)) = <<>> /\ LeafGap(vh_df, MacroOf(i)) > 2)
                => vh_result.val[i].status = "ERROR"
\* one ledger with both: a parent with a deeper row whose leaves do not
\* reconcile, and a parent with nothing deeper and no reconciling leaves
C18_Witness ==
    /\ HierarchyReturned
    /\ \E i, j \in Findings :
          /\ DirectGap(vh_df, MacroOf(i)) > 2
          /\ DeeperRows(vh_df, MacroOf(i)) /= <<>>
          /\ LeafGap(vh_df, MacroOf(i)) > 2
          /\ vh_result.val[i].status = "WARNING"
          /\ DirectGap(vh_df, MacroOf(j)) > 2
          /\ DeeperRows(vh_df, MacroOf(j)) = <<>>
          /\ vh_result.val[j].status = "ERROR"

\* C19: validate_hierarchy returns one finding per row typed Macro, in the
\* ledger's row order, and none for a Leaf row (so the empty list when there
\* is no Macro row); every finding's status is OK, WARNING or ERROR.
C19_OneFindingPerMacroRow ==
    HierarchyReturned =>
        /\ Len(vh_result.val) = Len(MacroRows(vh_df))
        /\ \A i \in Findings :
              /\ vh_result.val[i].conta_pai = MacroOf(i).codigo_conta
              /\ vh_result.val[i].saldo_pai = CentsOf(MacroOf(i).saldo_atual)
              /\ vh_result.val[i].status \in {"OK", "WARNING", "ERROR"}
\* a Leaf row between two Macro rows: two findings for three rows
C19_Witness ==
    /\ HierarchyReturned
    /\ Len(vh_df.rows) = 3
    /\ vh_df.rows[1].tipo = "Macro"
    /\ vh_df.rows[2].tipo = "Ultimo Nivel"
    /\ vh_df.rows[3].tipo = "Macro"
    /\ vh_df.rows[1].codigo_conta /= vh_df.rows[3].codigo_conta
    /\ Len(vh_result.val) = 2
    /\ vh_result.val[2].conta_pai = vh_df.rows[3].codigo_conta

(***************************************************************************)
(* Properties of validate_balance_sheet (SpecSheet), in exact cents.       *)
(***************************************************************************)
SheetReturned == bs_result.st = "returned"
\* b(code): the balance of the row with exactly that code, 0 if there is none
MatchingRows(codigo) == SelectSeq(bs_df.rows, LAMBDA r : r.codigo_conta = codigo)
b(codigo) ==
    IF MatchingRows(codigo) = <<>> THEN 0
    ELSE CentsOf(Head(MatchingRows(codigo)).saldo_atual)
AtivoGap == AbsCents(b(T_1) - (b(T_1_01) + b(T_1_02)))
PassivoGap == AbsCents(b(T_2) - (b(T_2_01) + b(T_2_02) + b(T_2_03)))
EquilibrioGap == AbsCents(b(T_1) + b(T_2) + b(T_3) + b(T_4))

\* C20: validate_balance_sheet looks balances up by exact code, a missing
\* code counting as 0, and returns ativo_decomposicao true iff
\* |b(1) - (b(1.01) + b(1.02))| <= 0.02, passivo_decomposicao true iff
\* |b(2) - (b(2.01) + b(2.02) + b(2.03))| <= 0.02, resultado_exercicio =
\* b(3) + b(4), and bp_equilibrio true iff |b(1) + b(2) + b(3) + b(4)| <= 0.02;
\* no other account changes a check.
C20_BalanceSheetChecks ==
    SheetReturned =>
        /\ bs_result.val.checks.ativo_decomposicao <=> AtivoGap <= 2
        /\ bs_result.val.checks.passivo_decomposicao <=> PassivoGap <= 2
        /\ bs_result.val.resultado_exercicio = b(T_3) + b(T_4)
        /\ bs_result.val.checks.bp_equilibrio <=> EquilibrioGap <= 2

(***************************************************************************)
(* Properties of validate_level_classification (SpecLevel).                *)
(***************************************************************************)
LevelReturned == lc_result.st = "returned"
DescendantsAt(i) ==
    SelectSeq(lc_df.rows,
              LAMBDA r : StartsWith(r.codigo_conta, lc_df.rows[i].codigo_conta \o <<".">>))
\* the positions of the Leaf rows that have a descendant, in ledger order
ContradictedAt ==
    SelectSeq([i \in 1..Len(lc_df.rows) |-> i],
              LAMBDA i : lc_df.rows[i].tipo = "Ultimo Nivel" /\ DescendantsAt(i) /= <<>>)

\* C21: validate_level_classification returns one contradiction for each row
\* typed Leaf that has a row whose code starts with its code and a dot, in
\* ledger order, listing all those rows' codes (direct or deeper) in ledger
\* order; so the list is empty iff no Leaf row has such a row, and no Macro
\* row is reported.
C21_OneContradictionPerLeafWithDescendants ==
    LevelReturned =>
        /\ Len(lc_result.val) = Len(ContradictedAt)
        /\ \A k \in 1..Len(lc_result.val) :
              /\ k <= Len(ContradictedAt)
              /\ lc_result.val[k].conta = lc_df.rows[ContradictedAt[k]].codigo_conta
              /\ lc_result.val[k].tipo_atual = "Ultimo Nivel"
              /\ lc_result.val[k].filhos_encontrados = Codes(DescendantsAt(ContradictedAt[k]))
\* a Macro row with descendants first, then a Leaf row with one: only the
\* Leaf row is reported
C21_Witness ==
    /\ LevelReturned
    /\ Len(lc_df.rows) = 3
    /\ lc_df.rows[1].tipo = "Macro" /\ lc_df.rows[1].codigo_conta = T_1
    /\ lc_df.rows[2].tipo = "Ultimo Nivel" /\ lc_df.rows[2].codigo_conta = T_1_01
    /\ lc_df.rows[3].codigo_conta = T_1_01_01
    /\ Len(lc_result.val) = 1
    /\ lc_result.val[1].conta = T_1_01
    /\ lc_result.val[1].filhos_encontrados = <<T_1_01_01>>

(***************************************************************************)
(* Properties of the three validators together (SpecValidators).           *)
(***************************************************************************)
Has(df, required) == required \subseteq df.columns

\* C22: each validator raises if and only if the DataFrame lacks one of the
\* columns it requires; with them present it returns its findings, whatever
\* the ledger holds.
C22_RaiseIffColumnMissing ==
    /\ vh_result.st /= "pending" =>
          /\ vh_result.st \in {"raised", "returned"}
          /\ vh_result.st = "raised" <=>
                ~Has(vh_df, {"codigo_conta", "titulo_conta", "nivel", "tipo", "saldo_atual"})
    /\ bs_result.st /= "pending" =>
          /\ bs_result.st \in {"raised", "returned"}
          /\ bs_result.st = "raised" <=> ~Has(bs_df, {"codigo_conta", "saldo_atual"})
    /\ lc_result.st /= "pending" =>
          /\ lc_result.st \in {"raised", "returned"}
          /\ lc_result.st = "raised" <=> ~Has(lc_df, {"codigo_conta", "tipo"})
\* a contradictory ledger without its top-level accounts and without the
\* nivel column: one validator raises, the other two return
C22_Witness ==
    /\ vh_df.columns = {"codigo_conta", "titulo_conta", "tipo", "saldo_atual"}
    /\ vh_df.rows = <<LedgerRow(T_1_01, Leaf, <<60, 0>>), LedgerRow(T_1_01_01, Leaf, <<100, 0>>)>>
    /\ vh_result.st = "raised"
    /\ bs_result.st = "returned"
    /\ bs_result.val.ativo_total = 0
    /\ lc_result.st = "returned"
    /\ Len(lc_result.val) = 1

(***************************************************************************)
(* Properties of _call_with_retry (SpecRetry, SpecRetryFair).              *)
(***************************************************************************)
RetryDone == rt_result.st /= "pending"
\* the invocations made so far that ended in HTTP 429
QuotaErrorsOnly(n) == \A k \in 1..n : rt_script[k] = 429
Doubling(n) == [k \in 1..n |-> 2 ^ k]
RetryOutcome ==
    /\ rt_calls <= 5
    /\ rt_attempt <= 5
    /\ ~RetryDone =>
          /\ QuotaErrorsOnly(rt_calls)
          /\ rt_calls < 5
          /\ rt_sleeps = Doubling(rt_calls)
    /\ RetryDone =>
          /\ rt_calls >= 1
          /\ QuotaErrorsOnly(rt_calls - 1)
          /\ rt_sleeps = Doubling(rt_calls - 1)
          /\ rt_script[rt_calls] = 200
                => rt_result = RetryReturned(rt_calls)
          /\ rt_script[rt_calls] = 429
                => rt_calls = 5 /\ rt_result = RetryRaised("QuotaExceededError", 429)
          /\ rt_script[rt_calls] \notin {200, 429}
                => rt_result = RetryRaised("APIError", rt_script[rt_calls])

\* C25: _call_with_retry ends after at most 5 invocations of the wrapped
\* call: it returns what the first successful invocation returned; an HTTP
\* 429 on attempts 1 to 4 is followed by a wait of 2 s, doubling each time,
\* and another attempt; an HTTP 429 on the 5th raises QuotaExceededError; an
\* APIError of another status is raised at once, with no further attempt.
C25_RetryTerminates == []RetryOutcome /\ <>RetryDone
\* two HTTP 429 and then a value: returned on the third invocation after
\* waits of 2 s and 4 s
C25_Witness ==
    /\ rt_result = RetryReturned(3)
    /\ rt_calls = 3
    /\ rt_sleeps = <<2, 4>>
    /\ rt_script[1] = 429 /\ rt_script[2] = 429 /\ rt_script[3] = 200

(***************************************************************************)
(* Properties of BaseWriter.write_month (SpecWriter).                      *)
(***************************************************************************)
StoredOf(store, periodo) == SelectSeq(store, LAMBDA r : r.periodo = periodo)
Occurrences(rows, x) == Cardinality({i \in 1..Len(rows) : rows[i] = x})
SameRows(xs, ys) ==
    /\ Len(xs) = Len(ys)
    /\ \A i \in 1..Len(xs) : Occurrences(xs, xs[i]) = Occurrences(ys, xs[i])
\* the rows of a DataFrame as the sheet holds them
AsStored(df) == [i \in 1..Len(df) |-> SheetRowOf(PreparedRow(df[i]))]
LastWriteStored ==
    \A p \in Periods : SameRows(StoredOf(bw_store, p), AsStored(bw_written[p]))
WriteKeepsOthers ==
    /\ \A q \in Periods \ {bw_result'.periodo} :
          StoredOf(bw_store', q) = StoredOf(bw_store, q)
    /\ bw_result'.replaced <=> StoredOf(bw_store, bw_result'.periodo) /= <<>>
    /\ bw_result'.rows_written = Len(bw_written'[bw_result'.periodo])

\* C23: write_month replaces a period rather than duplicating it: after any
\* sequence of calls the sheet holds, for each period, exactly the rows of
\* the last write for that period; each call leaves the rows of the other
\* periods as they were; and the flag replaced it returns is true if and
\* only if rows of that period were stored before the call.
C23_WriteMonthReplacesPeriod == []LastWriteStored /\ [][WriteKeepsOthers]_vars
\* a period written, another written, the first written again with other
\* rows: replaced, and both periods stored once
C23_Witness ==
    /\ bw_calls = 3
    /\ bw_result.replaced
    /\ \A p \in Periods : StoredOf(bw_store, p) /= <<>>
    /\ Len(bw_store) = 3
    /\ Len(bw_written[bw_result.periodo]) = 1

(***************************************************************************)
(* C24: classify_accounts gives each "Ultimo Nivel" row its classification *)
(* by strict priority: the DEPARA sheet's entry for the exact code when    *)
(* its classification is not empty, else SPECIFIC_ACCOUNT_MAPPING for the  *)
(* exact code, else DEFAULT_MAPPING for the first four segments of the     *)
(* code (the whole code when it has fewer), else "Pendente IA"; a Macro    *)
(* row keeps an empty classification; and a sheet that cannot be read      *)
(* counts as an empty sheet, not as an error.                              *)
(***************************************************************************)
SheetEntries(sheet, codigo) ==
    IF sheet.ok
    THEN {i \in 1..Len(sheet.rows) : sheet.rows[i].codigo_conta = codigo
                                     /\ sheet.rows[i].classificacao /= ""}
    ELSE {}
SegmentCount(codigo) == Len(SelectSeq(codigo, LAMBDA ch : ch = ".")) + 1
RECURSIVE CutAfterDots(_, _)
CutAfterDots(codigo, dots) ==
    IF codigo = <<>> THEN <<>>
    ELSE IF Head(codigo) = "." /\ dots = 1 THEN <<>>
    ELSE IF Head(codigo) = "." THEN <<".">> \o CutAfterDots(Tail(codigo), dots - 1)
    ELSE <<Head(codigo)>> \o CutAfterDots(Tail(codigo), dots)
PrefixKey(codigo) == IF SegmentCount(codigo) >= 4 THEN CutAfterDots(codigo, 4) ELSE codigo
ByPriority(sheet, codigo) ==
    IF SheetEntries(sheet, codigo) /= {}
    THEN sheet.rows[CHOOSE i \in SheetEntries(sheet, codigo) : TRUE].classificacao
    ELSE IF codigo \in DOMAIN SPECIFIC_ACCOUNT_MAPPING THEN SPECIFIC_ACCOUNT_MAPPING[codigo]
    ELSE IF PrefixKey(codigo) \in DOMAIN DEFAULT_MAPPING THEN DEFAULT_MAPPING[PrefixKey(codigo)]
    ELSE "Pendente IA"
ClassifiedByPriority ==
    ClassifyAccounts /\ {"codigo_conta", "titulo_conta", "tipo"} \subseteq cl_df.columns
    => /\ cl_result'.st = "returned"
       /\ Len(cl_result'.val) = Len(cl_df.rows)
       /\ \A i \in 1..Len(cl_df.rows) :
            cl_result'.val[i].classificacao_depara =
                IF cl_df.rows[i].tipo = Leaf
                THEN ByPriority(cl_sheet, cl_df.rows[i].codigo_conta)
                ELSE ""
C24_ClassificationByPriority == [][ClassifiedByPriority]_vars

\* an account of SPECIFIC_ACCOUNT_MAPPING classified from the sheet's
\* entry, next to one classified by its four-segment prefix
C24_Witness ==
    /\ cl_result.st = "returned"
    /\ cl_sheet.ok
    /\ \E i, j \in 1..Len(cl_result.val) :
        /\ cl_result.val[i].codigo_conta = K_Pis
        /\ cl_result.val[i].tipo = Leaf
        /\ cl_result.val[i].classificacao_depara = "(-) ISS"
        /\ cl_result.val[j].codigo_conta = K_Deducao1
        /\ cl_result.val[j].classificacao_depara = DEFAULT_MAPPING[K_Deducoes]

\* balancete_parser.py line 273, pd.DataFrame(records): the ledger as the
\* validators receive it; without records it has no columns
RecordColumns ==
    {"codigo_conta", "titulo_conta", "red", "nivel", "tipo", "grupo", "grupo_num",
     "saldo_anterior", "debitos", "creditos", "saldo_atual", "indicador_dc", "periodo"}
LedgerFrame(recs) ==
    DataFrame(IF recs = <<>> THEN {} ELSE RecordColumns, recs)

\* the codes of the retained rows of the file, and whether they are unique
\* and in ascending (pre-order) order
RetainedCodes(f) == [i \in 1..Len(Retained(f)) |-> CodeOf(Retained(f)[i])]
AscendingCodes(codes) ==
    \A i \in 1..(Len(codes) - 1) : StrLess(codes[i], codes[i + 1])
PreOrderLedger == Returns /\ AscendingCodes(RetainedCodes(file))

\* C26: the ledger parsed from a file whose retained rows have unique codes
\* in ascending order has no row typed "Ultimo Nivel" with a descendant, and
\* validate_level_classification returns the empty list for it.
C26_PreOrderLedgerHasNoContradiction ==
    PreOrderLedger
    => /\ \A i \in 1..Len(result.df) :
            result.df[i].tipo = Leaf => filhos_of(LedgerFrame(result.df), result.df[i].codigo_conta) = <<>>
       /\ validate_level_classification(LedgerFrame(result.df)) = Validated(<<>>)

\* the same for the ledgers with at least one row
C26_NonEmptyPreOrderLedger ==
    PreOrderLedger /\ result.df /= <<>>
    => validate_level_classification(LedgerFrame(result.df)) = Validated(<<>>)
C26_NonEmptyWitness ==
    /\ PreOrderLedger
    /\ Len(result.df) = 3
    /\ result.df[1].tipo = Macro
    /\ result.df[2].tipo = Leaf
\* a ledger out of order, where the validator does report
C26_OutOfOrderWitness ==
    /\ Returns
    /\ validate_level_classification(LedgerFrame(result.df)).st = "returned"
    /\ validate_level_classification(LedgerFrame(result.df)).val /= <<>>

\* C27: in the ledger parsed from a file whose retained rows have unique
\* codes in ascending order, every row typed Macro has a descendant, a row
\* whose code starts with its code and a dot, also when the file leaves out
\* intermediate levels.
C27_MacroHasDescendant ==
    PreOrderLedger
    => \A i \in 1..Len(result.df) :
            result.df[i].tipo = Macro
            => filhos_of(LedgerFrame(result.df), result.df[i].codigo_conta) /= <<>>

\* the same restricted to the rows followed by one of their own descendants
C27_MacroBeforeOwnBranch ==
    PreOrderLedger
    => \A i \in 1..(Len(result.df) - 1) :
            StartsWith(result.df[i + 1].codigo_conta, result.df[i].codigo_conta \o <<".">>)
            => result.df[i].tipo = Macro
\* a Macro row without a descendant: the next row is deeper, in another branch
C27_MacroWithoutDescendant ==
    /\ PreOrderLedger
    /\ Len(result.df) = 2
    /\ result.df[1].codigo_conta = T_1
    /\ result.df[1].tipo = Macro
    /\ result.df[2].codigo_conta = T_2_01

\* the cell of column k (from 0) of the i-th retained row holds a number that
\* is not negative
NumericCell(f, i, k) ==
    /\ Retained(f)[i][k + 1].t = "float"
    /\ Retained(f)[i][k + 1].v[1] >= 0
\* what parse_brazilian_value returns for the cell itself
ValueOfCell(f, i, k) == parse_brazilian_value(Retained(f)[i][k + 1]).val
SameValue(x, y) == Norm(x[1], x[2]) = Norm(y[1], y[2])

\* C28: when the debits or credits cell of a retained row holds a number
\* v >= 0 instead of text, the record's field is what parse_brazilian_value
\* returns for v, that is v.
C28_NumericCellKeepsValue ==
    Returns
    => \A i \in 1..Len(result.df) :
        /\ NumericCell(file, i, 4) => SameValue(result.df[i].debitos, ValueOfCell(file, i, 4))
        /\ NumericCell(file, i, 5) => SameValue(result.df[i].creditos, ValueOfCell(file, i, 5))

\* a debits cell holding the number 1234.56 is recorded as 123456.0
C28_NumericCellScaled ==
    /\ Returns
    /\ Len(result.df) = 1
    /\ Retained(file)[1][5] = Float(<<123456, 2>>)
    /\ SameValue(ValueOfCell(file, 1, 4), <<123456, 2>>)
    /\ SameValue(result.df[1].debitos, <<123456, 0>>)

\* parse_balancete as one function of the file: the four steps in a row
ParsedOutcome(h, r) ==
    IF r.exc.type /= "" THEN Failure(r.exc)
    ELSE Success(h, DetermineTipo(r.records))
ReadOutcome(h, r) ==
    IF r.exc.type /= "" THEN Failure(r.exc)
    ELSE IF r.rows = <<>> THEN Failure(Exc("ValueError", "no_data_rows"))
    ELSE ParsedOutcome(h, ParseRows(r.rows, h.mes_referencia, <<>>))
HeaderOutcome(f, h) ==
    IF h.exc.type /= "" THEN Failure(h.exc)
    ELSE ReadOutcome(h.header, read_data_rows(f))
parse_balancete(f) == HeaderOutcome(f, extract_header(f))

\* the file cut after its first "total geral" row
UpToSentinel(f) ==
    [f EXCEPT !.rows = SubSeq(f.rows, 1,
        IF FirstSentinel(f.rows) <= Len(f.rows) THEN FirstSentinel(f.rows) ELSE Len(f.rows))]

\* C29: the outcome of parse_balancete, ledger or error, is the outcome for
\* the same file cut after its first "total geral" row: two files with the
\* same preamble and the same rows up to that row have the same outcome,
\* whatever follows it.
C29_RowsAfterSentinelIgnored ==
    pc = "done" => result = parse_balancete(UpToSentinel(file))

\* a ledger from a file with an unmappable code after the sentinel, and one
\* from a file with two sentinels
C29_Witness ==
    /\ Returns
    /\ Len(file.rows) = 3
    /\ FirstSentinel(file.rows) = 2
    /\ CodeOf(file.rows[3]) = T_9
    /\ Len(result.df) = 1
C29_SecondSentinelWitness ==
    /\ Returns
    /\ Len(file.rows) = 3
    /\ FirstSentinel(file.rows) = 2
    /\ HasTotalGeral(CodeOf(file.rows[3]))

\* C30: whenever validate_balance_sheet reports bp_equilibrio false for the
\* ledger, the upload response shows it, by balance_ok false or by a balance
\* error or warning among its messages; balance_ok is true only when the
\* accounting identity held.
BalanceMessage(messages) == \E i \in 1..Len(messages) : messages[i] = "Balanco"
C30_UploadReflectsImbalance ==
    up_response.http = "200"
    => /\ ~validate_balance_sheet(up_df).val.checks.bp_equilibrio
            => \/ ~up_response.validations.balance_ok
               \/ BalanceMessage(up_response.errors)
               \/ BalanceMessage(up_response.warnings)
       /\ up_response.validations.balance_ok
            => validate_balance_sheet(up_df).val.checks.bp_equilibrio

\* an upload of an unbalanced ledger answered with balance_ok true and no
\* message
C30_ImbalanceUnreported ==
    /\ up_response.http = "200"
    /\ ~validate_balance_sheet(up_df).val.checks.bp_equilibrio
    /\ up_response.validations.balance_ok
    /\ up_response.status = "success"
    /\ up_response.warnings = <<>>
\* no upload reports anything about the balance
C30_BalanceNeverReported ==
    up_response.http = "200"
    => /\ up_response.validations.balance_ok
       /\ ~BalanceMessage(up_response.errors)
       /\ ~BalanceMessage(up_response.warnings)

====
